---- MODULE Spec2Model ----
(***************************************************************************)
(* A model of the dispatch-and-compose pipeline of the multi-model chatbot: *)
(* CoreAgent (intent router, history, streaming), the per-agent model       *)
(* selection strategies, the model clients' message lists and the           *)
(* sentiment tone templates.                                                *)
(*                                                                          *)
(* Text.  A Python str is modelled as the sequence of the Unicode code      *)
(* points of its characters (so the string 天气 is <<22825, 27668>> and     *)
(* "o3" is <<111, 51>>); the character classes of re and of the str methods *)
(* are sets and ranges of code points.  The comment at the end of a line    *)
(* gives the text of the literals of the line.                              *)
(***************************************************************************)
EXTENDS Integers, Sequences, FiniteSets, TLC

VARIABLES
    conversation_history, \* CoreAgent.conversation_history: list of {role, content}
    owner,                \* for each history entry, the process_input call that appended it
    gens,                 \* the generator objects returned by process_input, in call order
    requests,             \* the model requests posted by the latest step (client, messages)
    cleared,              \* the number of clear_history calls so far
    voice_call,           \* the process_voice_input calls that wait for a model answer, in call order
    products_db,          \* EcommerceAgent.products_db: for each category its list of products
    probe,                \* input of the function under study in the function-level specifications
    result                \* its result: <<>> before the function is applied, <<value>> after

vars == <<conversation_history, owner, gens, requests, cleared, voice_call, products_db,
         probe, result>>

----------------------------------------------------------------------------
(* Python str and list helpers *)

\* a[i+1 .. i+Len(w)] = w  (w occurs in a at offset i)
OccursAt(w, a, i) ==
    /\ i + Len(w) <= Len(a)
    /\ \A k \in 1..Len(w) : a[i + k] = w[k]

\* Python: w in a  (substring test; the empty string is in every string)
Contains(a, w) == \E i \in 0..Len(a) : OccursAt(w, a, i)

\* Python: any(w in a for w in ws)
ContainsAny(a, ws) == \E n \in 1..Len(ws) : Contains(a, ws[n])

\* Python: "".join(parts)
RECURSIVE Join(_)
Join(parts) == IF parts = <<>> THEN <<>> ELSE Head(parts) \o Join(Tail(parts))

\* what iterating a str yields: its characters, each a one-character str
Chars(s) == [i \in 1..Len(s) |-> <<s[i]>>]

IsPrefix(a, b) == Len(a) <= Len(b) /\ SubSeq(b, 1, Len(a)) = a

----------------------------------------------------------------------------
(* Python re.search on the pattern shapes the routing table uses.  A        *)
(* pattern is a sequence of nodes; Ends gives the set of offsets at which a *)
(* match that started at an offset of S can end, so lazy and greedy         *)
(* quantifiers agree (only the existence of a match is asked).              *)

\* the code points c with chr(c).isspace(): what \s matches and str.strip() and str.split() remove
Whitespace ==
    {9, 10, 11, 12, 13, 28, 29, 30, 31, 32, 133, 160, 5760} \cup (8192..8202)
        \cup {8232, 8233, 8239, 8287, 12288}

\* the code point of the digit zero of every decimal digit script of Unicode 14 (the nine
\* digits that follow it are 1..9 of the same script)
DigitZeros ==
    { 48, 1632, 1776, 1984, 2406, 2534, 2662, 2790, 2918, 3046, 3174, 3302, 3430, 3558, 3664, 3792, 3872,
      4160, 4240, 6112, 6160, 6470, 6608, 6784, 6800, 6992, 7088, 7232, 7248, 42528, 43216, 43264, 43472,
      43504, 43600, 44016, 65296, 66720, 68912, 69734, 69872, 69942, 70096, 70384, 70736, 70864, 71248,
      71360, 71472, 71904, 72016, 72784, 73040, 73120, 92768, 92864, 93008, 120782, 120792, 120802,
      120812, 120822, 123200, 123632, 125264, 130032 }

\* what \d matches: every Unicode decimal digit, not only 0-9
Digits == UNION {z..(z + 9) : z \in DigitZeros}

\* the value int() gives a decimal digit
DigitValue(c) == c - (CHOOSE z \in DigitZeros : c \in z..(z + 9))

LAZY == [k |-> "any"]                   \* .*?   (any characters but newline)
Lit(w) == [k |-> "lit", w |-> w]        \* a literal
Alt(ps) == [k |-> "alt", ps |-> ps]     \* (?:p1|p2|...), each pi a pattern
Opt(p) == [k |-> "opt", p |-> p]        \* (?:p)?
DIGITS1 == [k |-> "digits"]             \* \d+
Class(cs) == [k |-> "class", cs |-> cs] \* [cs]
Words(ws) == Alt([n \in 1..Len(ws) |-> <<Lit(ws[n])>>])  \* (?:w1|w2|...)

RECURSIVE EndsSeq(_, _, _)
Ends(node, text, S) ==
    CASE node.k = "any" ->
            {j \in 0..Len(text) : \E i \in S :
                i <= j /\ \A k \in (i + 1)..j : text[k] # 10}
      [] node.k = "lit" ->
            {i + Len(node.w) : i \in {s \in S : OccursAt(node.w, text, s)}}
      [] node.k = "alt" ->
            UNION {EndsSeq(node.ps[n], text, S) : n \in 1..Len(node.ps)}
      [] node.k = "opt" -> S \cup EndsSeq(node.p, text, S)
      [] node.k = "digits" ->
            {j \in 1..Len(text) : \E i \in S :
                i < j /\ \A k \in (i + 1)..j : text[k] \in Digits}
      [] node.k = "class" ->
            {i + 1 : i \in {s \in S : s < Len(text) /\ text[s + 1] \in node.cs}}

EndsSeq(pat, text, S) ==
    IF pat = <<>> THEN S ELSE EndsSeq(Tail(pat), text, Ends(Head(pat), text, S))

\* re.search(pattern, text) is not None
re_search(pattern, text) == EndsSeq(pattern, text, 0..Len(text)) # {}

----------------------------------------------------------------------------
(* CoreAgent: the routing table and _route_to_agent *)

\* the keys of routing_rules in insertion (iteration) order
rule_order == <<"weather", "ecommerce", "education", "government", "conversation">>

routing_rules ==
    [weather |-> [
        keywords |-> << <<22825,27668>>, <<27668,28201>>, <<28201,24230>>, <<19979,38632>>, <<38452,22825>>, <<26228,22825>>, <<22810,20113>> >>,  \* 天气 | 气温 | 温度 | 下雨 | 阴天 | 晴天 | 多云
        patterns |-> <<
            \* .*?(?:查询|查看|想知道|告诉我)?.*?(?:的)?天气.*?
            << LAZY, Opt(<<Words(<< <<26597,35810>>, <<26597,30475>>, <<24819,30693,36947>>, <<21578,35785,25105>> >>)>>), LAZY,  \* 查询 | 查看 | 想知道 | 告诉我
               Opt(<<Lit(<<30340>>)>>), Lit(<<22825,27668>>), LAZY >>,  \* 的 | 天气
            \* .*?天气(?:怎么样|如何).*?
            << LAZY, Lit(<<22825,27668>>), Words(<< <<24590,20040,26679>>, <<22914,20309>> >>), LAZY >> >>],  \* 天气 | 怎么样 | 如何
     ecommerce |-> [
        keywords |-> << <<36141,29289>>, <<21830,21697>>, <<20215,26684>>, <<35746,21333>>, <<36141,20080>>, <<30005,21830>>, <<25163,26426>>, <<30005,33041>>, <<32819,26426>>, <<24179,26495>> >>,  \* 购物 | 商品 | 价格 | 订单 | 购买 | 电商 | 手机 | 电脑 | 耳机 | 平板
        patterns |-> <<
            \* .*?(?:想买|推荐|查询|搜索).*?(?:商品|产品|手机|电脑|耳机|平板).*?
            << LAZY, Words(<< <<24819,20080>>, <<25512,33616>>, <<26597,35810>>, <<25628,32034>> >>), LAZY,  \* 想买 | 推荐 | 查询 | 搜索
               Words(<< <<21830,21697>>, <<20135,21697>>, <<25163,26426>>, <<30005,33041>>, <<32819,26426>>, <<24179,26495>> >>), LAZY >>,  \* 商品 | 产品 | 手机 | 电脑 | 耳机 | 平板
            \* .*?(?:\d+元|\d+到\d+元).*?(?:以下|以内|之间).*?
            << LAZY, Alt(<< <<DIGITS1, Lit(<<20803>>)>>,  \* 元
                            <<DIGITS1, Lit(<<21040>>), DIGITS1, Lit(<<20803>>)>> >>), LAZY,  \* 到 | 元
               Words(<< <<20197,19979>>, <<20197,20869>>, <<20043,38388>> >>), LAZY >>,  \* 以下 | 以内 | 之间
            \* .*?(?:购物指南|选购指南|购买建议).*?
            << LAZY, Words(<< <<36141,29289,25351,21335>>, <<36873,36141,25351,21335>>, <<36141,20080,24314,35758>> >>), LAZY >>,  \* 购物指南 | 选购指南 | 购买建议
            \* .*?(?:查询|查看).*?(?:订单).*?
            << LAZY, Words(<< <<26597,35810>>, <<26597,30475>> >>), LAZY, Words(<< <<35746,21333>> >>), LAZY >> >>],  \* 查询 | 查看 | 订单
     education |-> [
        keywords |-> << <<25968,23398>>, <<35745,31639>>, <<26041,31243>>, <<20989,25968>>, <<20960,20309>>, <<20195,25968>>, <<24494,31215,20998>>, <<29289,29702>>, <<21270,23398>>, <<25945,32946>> >>,  \* 数学 | 计算 | 方程 | 函数 | 几何 | 代数 | 微积分 | 物理 | 化学 | 教育
        patterns |-> <<
            \* .*?(?:计算|求解|证明|解方程).*?
            << LAZY, Words(<< <<35745,31639>>, <<27714,35299>>, <<35777,26126>>, <<35299,26041,31243>> >>), LAZY >>,  \* 计算 | 求解 | 证明 | 解方程
            \* .*?(?:\d+[+\-*/^]\d+).*?
            << LAZY, Alt(<< <<DIGITS1, Class({ 43,45,42,47,94 }), DIGITS1>> >>), LAZY >>,  \* +-*/^
            \* .*?(?:数学|物理|化学).*?(?:问题|题目|公式).*?
            << LAZY, Words(<< <<25968,23398>>, <<29289,29702>>, <<21270,23398>> >>), LAZY,  \* 数学 | 物理 | 化学
               Words(<< <<38382,39064>>, <<39064,30446>>, <<20844,24335>> >>), LAZY >> >>],  \* 问题 | 题目 | 公式
     government |-> [
        keywords |-> << <<25919,21153>>, <<35777,20214>>, <<31038,20445>>, <<21307,20445>>, <<20844,31215,37329>>, <<31246,21153>>, <<25143,21475>>, <<39550,29031>>, <<36523,20221,35777>>, <<25252,29031>> >>,  \* 政务 | 证件 | 社保 | 医保 | 公积金 | 税务 | 户口 | 驾照 | 身份证 | 护照
        patterns |-> <<
            \* .*?(?:办理|申请|查询).*?(?:证件|社保|医保|公积金|税务).*?
            << LAZY, Words(<< <<21150,29702>>, <<30003,35831>>, <<26597,35810>> >>), LAZY,  \* 办理 | 申请 | 查询
               Words(<< <<35777,20214>>, <<31038,20445>>, <<21307,20445>>, <<20844,31215,37329>>, <<31246,21153>> >>), LAZY >>,  \* 证件 | 社保 | 医保 | 公积金 | 税务
            \* .*?(?:政府|政务).*?(?:服务|咨询).*?
            << LAZY, Words(<< <<25919,24220>>, <<25919,21153>> >>), LAZY, Words(<< <<26381,21153>>, <<21672,35810>> >>), LAZY >> >>],  \* 政府 | 政务 | 服务 | 咨询
     conversation |-> [
        keywords |-> << <<20320,22909>>, <<35831,38382>>, <<24110,25105>>, <<35874,35874>> >>,  \* 你好 | 请问 | 帮我 | 谢谢
        patterns |-> << >>]]

\* context.get("weather_enabled") is False
weather_is_False(context) == context.weather_enabled = "False"

\* truthiness of context.get("weather_enabled", True)
weather_enabled_or_default(context) == context.weather_enabled # "False"

NoRoute == "none"

\* the for-loop over rules["patterns"] of one rule, from pattern n on
RECURSIVE pattern_loop(_, _, _, _)
pattern_loop(agent_type, n, user_input, context) ==
    LET patterns == routing_rules[agent_type].patterns IN
    IF n > Len(patterns) THEN NoRoute
    ELSE IF re_search(patterns[n], user_input)
         THEN IF agent_type = "weather" /\ weather_is_False(context)
              THEN pattern_loop(agent_type, n + 1, user_input, context)
              ELSE agent_type
         ELSE pattern_loop(agent_type, n + 1, user_input, context)

\* a loop that tries the keywords of every rule before any pattern
rule_loop_keywords_first(i, user_input, context) ==
    LET by_keyword == {n \in i..Len(rule_order) :
                          ContainsAny(user_input, routing_rules[rule_order[n]].keywords)}
        by_pattern == {n \in i..Len(rule_order) :
                          pattern_loop(rule_order[n], 1, user_input, context) # NoRoute}
    IN IF by_keyword # {}
       THEN rule_order[CHOOSE n \in by_keyword : \A k \in by_keyword : n <= k]
       ELSE IF by_pattern # {}
       THEN rule_order[CHOOSE n \in by_pattern : \A k \in by_pattern : n <= k]
       ELSE NoRoute

\* the for-loop over self.routing_rules.items(), from rule i on
RECURSIVE rule_loop(_, _, _)
rule_loop(i, user_input, context) ==
    IF i > Len(rule_order) THEN NoRoute
    ELSE LET agent_type == rule_order[i]
             rules == routing_rules[agent_type]
         IN IF agent_type = "weather" /\ weather_is_False(context)
            THEN rule_loop(i + 1, user_input, context)
            ELSE IF ContainsAny(user_input, rules.keywords)
                 THEN IF agent_type = "weather" /\ weather_is_False(context)
                      THEN rule_loop(i + 1, user_input, context)
                      ELSE agent_type
                 ELSE LET p == pattern_loop(agent_type, 1, user_input, context)
                      IN IF p # NoRoute THEN p
                         ELSE rule_loop(i + 1, user_input, context)

secondary_check_ungated(user_input, context) ==
    IF Contains(user_input, <<22825,27668>>) THEN "weather" ELSE "conversation"  \* 天气

secondary_check_no_default(user_input, context) ==
    IF Contains(user_input, <<22825,27668>>) /\ weather_enabled_or_default(context)  \* 天气
    THEN "weather"
    ELSE NoRoute

\* what follows the rule loop: the literal check and the default
secondary_check(user_input, context) ==
    IF Contains(user_input, <<22825,27668>>) /\ weather_enabled_or_default(context)  \* 天气
    THEN "weather"
    ELSE "conversation"

_route_to_agent(user_input, context) ==
    LET r == rule_loop(1, user_input, context)
    IN IF r # NoRoute THEN r ELSE secondary_check(user_input, context)

----------------------------------------------------------------------------
(* Bounds and input sets *)

\* the number of vocabulary words a routed text is made of, at most
MaxWords == 3

\* words the texts of the routing study are concatenated from
Vocabulary ==
    { <<22825,27668>>, <<27668,28201>>, <<35746,21333>>, <<25512,33616>>, <<20135,21697>>, <<51,20803>>, <<20197,19979>>,  \* 天气 | 气温 | 订单 | 推荐 | 产品 | 3元 | 以下
      <<25968,23398>>, <<51,43,51>>, <<25919,24220>>, <<21672,35810>>, <<20320,22909>>, <<10>>, <<65299,20803>> }  \* 数学 | 3+3 | 政府 | 咨询 | 你好 | \n | ３元

RECURSIVE TextsOf(_)
TextsOf(n) ==
    IF n = 0 THEN {<<>>}
    ELSE LET shorter == TextsOf(n - 1)
         IN shorter \cup {t \o w : t \in shorter, w \in Vocabulary}

\* context["weather_enabled"]: True, False, or the key is absent
FlagValues == {"True", "False", "absent"}

----------------------------------------------------------------------------
(* The product catalog EcommerceAgent.__init__ builds *)

\* a product as constructed has no key "value_score"
NoScore == <<>>

\* self.products_db in the order of its keys: rating is in tenths of a star
EcommerceAgent_products_db ==
    << [category |-> <<25163,26426>>,  \* 手机
        products |-> <<
             [id |-> <<112,48,48,49>>, name |-> <<26234,33021,25163,26426,65>>, brand |-> <<21697,29260,88>>,  \* p001 | 智能手机A | 品牌X
              price |-> 2999, rating |-> 45, stock |-> 100, value_score |-> NoScore],
             [id |-> <<112,48,48,50>>, name |-> <<26234,33021,25163,26426,66>>, brand |-> <<21697,29260,89>>,  \* p002 | 智能手机B | 品牌Y
              price |-> 3999, rating |-> 47, stock |-> 50, value_score |-> NoScore],
             [id |-> <<112,48,48,51>>, name |-> <<26234,33021,25163,26426,67>>, brand |-> <<21697,29260,90>>,  \* p003 | 智能手机C | 品牌Z
              price |-> 1999, rating |-> 42, stock |-> 200, value_score |-> NoScore] >>],
       [category |-> <<31508,35760,26412,30005,33041>>,  \* 笔记本电脑
        products |-> <<
             [id |-> <<108,48,48,49>>, name |-> <<36731,34180,26412,65>>, brand |-> <<21697,29260,88>>,  \* l001 | 轻薄本A | 品牌X
              price |-> 5999, rating |-> 46, stock |-> 30, value_score |-> NoScore],
             [id |-> <<108,48,48,50>>, name |-> <<28216,25103,26412,66>>, brand |-> <<21697,29260,89>>,  \* l002 | 游戏本B | 品牌Y
              price |-> 7999, rating |-> 48, stock |-> 20, value_score |-> NoScore],
             [id |-> <<108,48,48,51>>, name |-> <<21830,21153,26412,67>>, brand |-> <<21697,29260,90>>,  \* l003 | 商务本C | 品牌Z
              price |-> 4999, rating |-> 44, stock |-> 50, value_score |-> NoScore] >>],
       [category |-> <<32819,26426>>,  \* 耳机
        products |-> <<
             [id |-> <<104,48,48,49>>, name |-> <<26080,32447,32819,26426,65>>, brand |-> <<21697,29260,88>>,  \* h001 | 无线耳机A | 品牌X
              price |-> 999, rating |-> 43, stock |-> 200, value_score |-> NoScore],
             [id |-> <<104,48,48,50>>, name |-> <<38477,22122,32819,26426,66>>, brand |-> <<21697,29260,89>>,  \* h002 | 降噪耳机B | 品牌Y
              price |-> 1499, rating |-> 46, stock |-> 100, value_score |-> NoScore],
             [id |-> <<104,48,48,51>>, name |-> <<36816,21160,32819,26426,67>>, brand |-> <<21697,29260,90>>,  \* h003 | 运动耳机C | 品牌Z
              price |-> 299, rating |-> 41, stock |-> 300, value_score |-> NoScore] >>],
       [category |-> <<24179,26495,30005,33041>>,  \* 平板电脑
        products |-> <<
             [id |-> <<116,48,48,49>>, name |-> <<24179,26495,65>>, brand |-> <<21697,29260,88>>,  \* t001 | 平板A | 品牌X
              price |-> 3499, rating |-> 45, stock |-> 50, value_score |-> NoScore],
             [id |-> <<116,48,48,50>>, name |-> <<24179,26495,66>>, brand |-> <<21697,29260,89>>,  \* t002 | 平板B | 品牌Y
              price |-> 4499, rating |-> 47, stock |-> 30, value_score |-> NoScore],
             [id |-> <<116,48,48,51>>, name |-> <<24179,26495,67>>, brand |-> <<21697,29260,90>>,  \* t003 | 平板C | 品牌Z
              price |-> 2499, rating |-> 43, stock |-> 100, value_score |-> NoScore] >>] >>

----------------------------------------------------------------------------
(* The state right after CoreAgent.__init__ *)

CoreAgentInit ==
    /\ conversation_history = <<>>
    /\ owner = <<>>
    /\ gens = <<>>
    /\ requests = <<>>
    /\ cleared = 0
    /\ voice_call = <<>>

\* with the catalog EcommerceAgent.__init__ builds
DispatcherInit ==
    /\ CoreAgentInit
    /\ products_db = EcommerceAgent_products_db

\* result holds nothing before the function is applied and <<value>> after
Pending == <<>>
Applied == result # Pending
Value == result[1]

CoreAgentIdle == UNCHANGED <<conversation_history, owner, gens, requests, cleared, voice_call>>

DispatcherIdle == CoreAgentIdle /\ UNCHANGED products_db

----------------------------------------------------------------------------
(* Function-level study of _route_to_agent *)

InitRoute ==
    /\ DispatcherInit
    /\ probe \in [text : TextsOf(MaxWords), context : [weather_enabled : FlagValues]]
    /\ result = Pending

Route ==
    /\ ~Applied
    /\ result' = <<_route_to_agent(probe.text, probe.context)>>
    /\ UNCHANGED probe
    /\ DispatcherIdle

SpecRoute == InitRoute /\ [][Route]_vars

\* no keyword of any rule is in the text and no pattern of any rule matches it
NoRuleMatches(text) ==
    \A i \in 1..Len(rule_order) :
        LET rules == routing_rules[rule_order[i]]
        IN /\ ~ContainsAny(text, rules.keywords)
           /\ \A n \in 1..Len(rules.patterns) : ~re_search(rules.patterns[n], text)

\* C1: with weather_enabled set to False in the context, no text is routed
\* to "weather": not by a weather keyword, not by a weather pattern and not
\* by the literal check after the rule loop.
C1_WeatherDisabledNeverRoutes ==
    (Applied /\ probe.context.weather_enabled = "False")
        => Value # "weather"

\* a text dense in weather keywords has been routed with the flag False
C1_Witness ==
    /\ Applied
    /\ probe.context.weather_enabled = "False"
    /\ Contains(probe.text, <<22825,27668>>)  \* 天气
    /\ Contains(probe.text, <<27668,28201>>)  \* 气温

Domains == {"weather", "ecommerce", "education", "government", "conversation"}

\* C2: routing is total: every text and flag setting yields one of the five
\* domain keys, and a text that matches no rule keyword or pattern (and so
\* does not contain the weather word either) yields "conversation".
C2_RoutingTotal ==
    Applied =>
        /\ Value \in Domains
        /\ (NoRuleMatches(probe.text) /\ ~Contains(probe.text, <<22825,27668>>))  \* 天气
               => Value = "conversation"

\* the empty text and a text matching no rule were routed
C2_Witness ==
    /\ Applied
    /\ Value = "conversation"
    /\ NoRuleMatches(probe.text)
    /\ probe.text \in {<<>>, <<20135,21697>>}  \* 产品

----------------------------------------------------------------------------
(* Model clients.  A call of generate() builds the message list it sends    *)
(* and returns a lazy stream of fragments.  What the remote model answers   *)
(* is the environment's choice, an outcome: the content chunks received     *)
(* (each a non-empty string, or a value that is not a string) and whether the transport failed after them.   *)
(* A client operator returns                                                *)
(*   frags    - the fragments its stream yields,                            *)
(*   call     - the client and the message list sent,                       *)
(*   passed   - the caller's list argument as it is after the call.         *)

UserMessage(prompt) == [role |-> "user", content |-> prompt]

\* the fragments of a stream of models/qwen2_5.py or models/deepseek.py:
\* the chunks, then on failure one fragment with the apology and str(e)
StreamA(apology, outcome) ==
    outcome.chunks \o (IF outcome.failed THEN <<apology \o outcome.err>> ELSE <<>>)

\* messages = []; messages.extend(history); append the prompt unless the
\* last message already is a user message
MessagesA(prompt, history) ==
    IF history = <<>>
       \/ history[Len(history)].role # "user"
    THEN Append(history, UserMessage(prompt))
    ELSE history

\* models/qwen2_5.py Qwen2Model.generate
Qwen2_5_generate(prompt, history, outcome) ==
    [frags |-> StreamA(<<25265,27465,65292,20351,29992,81,119,101,110,50,46,53,27169,22411,26102,21457,29983,38169,35823,58,32>>, outcome),  \* 抱歉，使用Qwen2.5模型时发生错误: 
     call |-> [client |-> "qwen", messages |-> MessagesA(prompt, history)],
     passed |-> history]

\* models/deepseek.py DeepSeekModel.generate
DeepSeek_generate(prompt, history, outcome) ==
    [frags |-> StreamA(<<25265,27465,65292,20351,29992,68,101,101,112,83,101,101,107,27169,22411,26102,21457,29983,38169,35823,58,32>>, outcome),  \* 抱歉，使用DeepSeek模型时发生错误: 
     call |-> [client |-> "deepseek", messages |-> MessagesA(prompt, history)],
     passed |-> history]

\* the fragments of a stream of models/qwen_model.py or models/deepseek_model.py
StreamB(outcome) ==
    outcome.chunks \o (IF outcome.failed THEN << <<29983,25104,22238,22797,22833,36133,58,32>> \o outcome.err>> ELSE <<>>)  \* 生成回复失败: 

\* models/qwen_model.py Qwen2Model.generate: the prompt is always appended
\* to a copy of the history
qwen_model_generate(prompt, history, outcome) ==
    [frags |-> StreamB(outcome),
     call |-> [client |-> "qwen",
               messages |-> Append(history, UserMessage(prompt))],
     passed |-> history]

\* models/deepseek_model.py DeepSeekModel.generate: the prompt is appended
\* to the list that was passed in (no copy)
deepseek_model_generate(prompt, messages, outcome) ==
    [frags |-> StreamB(outcome),
     call |-> [client |-> "deepseek", messages |-> Append(messages, UserMessage(prompt))],
     passed |-> Append(messages, UserMessage(prompt))]

\* a content chunk that json.loads decoded to a number instead of a text:
\* the clients yield chunk content unchecked as soon as it is truthy
IntChunk == <<-1>>

AllStr(frags) == \A i \in 1..Len(frags) : frags[i] # IntChunk

\* str(e) of the TypeError that  response += chunk  raises on such a chunk
ConcatError == <<99,97,110,32,111,110,108,121,32,99,111,110,99,97,116,101,110,97,116,101,32,115,116,114,32,40,110,111,116,32,34,105,110,116,34,41,32,116,111,32,115,116,114>>  \* can only concatenate str (not "int") to str

----------------------------------------------------------------------------
(* ConversationAgent: model selection strategies.  A strategy returns       *)
(*   frags - the fragments of the stream it returns,                        *)
(*   calls - the model calls made, in order,                                *)
(*   hist  - the caller's history list after the strategy ran. *)

\* len(s.strip()) > 0
NonBlank(s) == \E i \in 1..Len(s) : s[i] \notin Whitespace

ConversationAgent_use_qwen_model(user_input, history, env) ==
    LET g == Qwen2_5_generate(user_input, history, env.qwen)
    IN [frags |-> g.frags, calls |-> <<g.call>>, hist |-> g.passed]

ConversationAgent_system_prompt ==
    [role |-> "system",
     content |-> <<20320,26159,19968,20010,19987,19994,30340,25945,32946,21161,25163,65292,25797,38271,35299,31572,23398,26415,21644,19987,19994,30693,35782,30456,20851,30340,38382,39064,12290,35831,25552,20379,20934,30830,12289,28165,26224,19988,32467,26500,21270,30340,22238,31572,12290>>]  \* 你是一个专业的教育助手，擅长解答学术和专业知识相关的问题。请提供准确、清晰且结构化的回答。

ConversationAgent_use_deepseek_model(user_input, history, env) ==
    LET messages == <<ConversationAgent_system_prompt>> \o history
        g == DeepSeek_generate(user_input, messages, env.deepseek)
    IN [frags |-> g.frags, calls |-> <<g.call>>, hist |-> history]

ConversationAgent_professional_keywords ==
    << <<31639,27861>>, <<32534,31243>>, <<20195,30721>>, <<31185,23398>>, <<30740,31350>>, <<35770,25991>>, <<21307,23398>>, <<27861,24459>>,  \* 算法 | 编程 | 代码 | 科学 | 研究 | 论文 | 医学 | 法律
       <<37329,34701>>, <<25237,36164>>, <<32463,27982,23398>>, <<29289,29702>>, <<21270,23398>>, <<29983,29289>>, <<25968,23398>> >>  \* 金融 | 投资 | 经济学 | 物理 | 化学 | 生物 | 数学

ConversationAgent_auto_select_model(user_input, history, env) ==
    IF ContainsAny(user_input, ConversationAgent_professional_keywords)
    THEN ConversationAgent_use_deepseek_model(user_input, history, env)
    ELSE ConversationAgent_use_qwen_model(user_input, history, env)

\* how the two collected responses are combined (conversation_agent.py 265-276)
ConversationAgent_combine(qwen_response, deepseek_response) ==
    IF NonBlank(qwen_response) /\ NonBlank(deepseek_response)
    THEN <<32508,21512,22238,22797,65306,10,10>> \o qwen_response \o <<10,10,34917,20805,20449,24687,65306,10>> \o deepseek_response  \* 综合回复：\n\n | \n\n补充信息：\n
    ELSE IF NonBlank(qwen_response) THEN qwen_response ELSE deepseek_response

\* the except branch of a hybrid strategy: one fragment with str(e)
HybridFailed(apology, calls, hist) ==
    [frags |-> <<apology \o ConcatError>>, calls |-> calls, hist |-> hist]

ConversationAgent_hybrid_second(user_input, q, env) ==
    LET qwen_response == Join(q.frags)
        deepseek_prompt == <<35831,23545,20197,19979,38382,39064,25552,20379,19987,19994,30340,34917,20805,35828,26126,65306>> \o user_input  \* 请对以下问题提供专业的补充说明：
                               \o <<10,21407,22987,22238,31572,65306>> \o qwen_response  \* \n原始回答：
        d == DeepSeek_generate(deepseek_prompt, q.passed, env.deepseek)
        deepseek_response == Join(d.frags)
    IN IF ~AllStr(d.frags)
       THEN HybridFailed(<<25265,27465,65292,28151,21512,27169,24335,22788,29702,22833,36133,58,32>>, <<q.call, d.call>>, d.passed)  \* 抱歉，混合模式处理失败: 
       ELSE [frags |-> Chars(ConversationAgent_combine(qwen_response, deepseek_response)),
             calls |-> <<q.call, d.call>>,
             hist |-> d.passed]

ConversationAgent_use_hybrid_model(user_input, history, env) ==
    LET q == Qwen2_5_generate(user_input, history, env.qwen)
    IN IF ~AllStr(q.frags)
       THEN HybridFailed(<<25265,27465,65292,28151,21512,27169,24335,22788,29702,22833,36133,58,32>>, <<q.call>>, q.passed)  \* 抱歉，混合模式处理失败: 
       ELSE ConversationAgent_hybrid_second(user_input, q, env)

----------------------------------------------------------------------------
(* EcommerceAgent, EducationAgent, GovernmentAgent: hybrid strategies *)

EcommerceAgent_hybrid_second(user_input, q, env) ==
    LET qwen_response == Join(q.frags)
        deepseek_prompt == <<35831,23545,20197,19979,30005,21830,38382,39064,25552,20379,19987,19994,30340,34917,20805,35828,26126,65306>> \o user_input  \* 请对以下电商问题提供专业的补充说明：
                               \o <<10,21407,22987,22238,31572,65306>> \o qwen_response  \* \n原始回答：
        d == deepseek_model_generate(deepseek_prompt, q.passed, env.deepseek)
        deepseek_response == Join(d.frags)
        combined == <<32508,21512,22238,22797,65306,10,10>> \o qwen_response \o <<10,10,34917,20805,20449,24687,65306,10>>  \* 综合回复：\n\n | \n\n补充信息：\n
                        \o deepseek_response
    IN IF ~AllStr(d.frags)
       THEN HybridFailed(<<25265,27465,65292,22788,29702,22833,36133,58,32>>, <<q.call, d.call>>, d.passed)  \* 抱歉，处理失败: 
       ELSE [frags |-> Chars(combined), calls |-> <<q.call, d.call>>, hist |-> d.passed]

EcommerceAgent_use_hybrid_model(user_input, history, env) ==
    LET q == qwen_model_generate(user_input, history, env.qwen)
    IN IF ~AllStr(q.frags)
       THEN HybridFailed(<<25265,27465,65292,22788,29702,22833,36133,58,32>>, <<q.call>>, q.passed)  \* 抱歉，处理失败: 
       ELSE EcommerceAgent_hybrid_second(user_input, q, env)

\* the input length above which the education and government hybrid
\* strategies use the Qwen client
HybridLengthThreshold == 50

EducationAgent_use_hybrid_model(user_input, history, env) ==
    IF Len(user_input) > HybridLengthThreshold
    THEN LET q == qwen_model_generate(user_input, history, env.qwen)
         IN [frags |-> q.frags, calls |-> <<q.call>>, hist |-> q.passed]
    ELSE LET deepseek_prompt == <<35831,20197,25945,32946,19987,23478,30340,36523,20221,22238,31572,20197,19979,38382,39064,65306,10>> \o user_input  \* 请以教育专家的身份回答以下问题：\n
             d == deepseek_model_generate(deepseek_prompt, history,
                                          env.deepseek)
         IN [frags |-> d.frags, calls |-> <<d.call>>, hist |-> d.passed]

GovernmentAgent_use_hybrid_model(user_input, history, env) ==
    IF Len(user_input) > HybridLengthThreshold
    THEN LET q == qwen_model_generate(user_input, history, env.qwen)
         IN [frags |-> q.frags, calls |-> <<q.call>>, hist |-> q.passed]
    ELSE LET deepseek_prompt == <<35831,20197,25919,21153,26381,21153,20154,21592,30340,36523,20221,22238,31572,20197,19979,38382,39064,65306,10>> \o user_input  \* 请以政务服务人员的身份回答以下问题：\n
             d == deepseek_model_generate(deepseek_prompt, history,
                                          env.deepseek)
         IN [frags |-> d.frags, calls |-> <<d.call>>, hist |-> d.passed]

HybridAgents == {"conversation", "ecommerce", "education", "government"}

use_hybrid_model(agent, user_input, history, env) ==
    CASE agent = "conversation" ->
            ConversationAgent_use_hybrid_model(user_input, history, env)
      [] agent = "ecommerce" ->
            EcommerceAgent_use_hybrid_model(user_input, history, env)
      [] agent = "education" ->
            EducationAgent_use_hybrid_model(user_input, history, env)
      [] agent = "government" ->
            GovernmentAgent_use_hybrid_model(user_input, history, env)

----------------------------------------------------------------------------
(* What the models can answer *)

\* the number of content chunks of one model answer, at most
MaxChunks == 2

\* the content chunks a model answer is made of
ChunkValues == { <<32>>, <<65>>, <<98,10>> }  \*   | A | b\n

RECURSIVE ChunkSeqs(_)
ChunkSeqs(n) ==
    IF n = 0 THEN {<<>>}
    ELSE LET shorter == ChunkSeqs(n - 1)
         IN shorter \cup {Append(s, c) : s \in shorter, c \in ChunkValues}

\* str(e) of a transport failure
ErrorText == <<116,105,109,101,111,117,116>>  \* timeout

Outcomes == [chunks : ChunkSeqs(MaxChunks), failed : BOOLEAN, err : {ErrorText}]

\* the text a client's stream adds up to, as its caller collects it
OutputA(apology, outcome) == Join(StreamA(apology, outcome))
OutputB(outcome) == Join(StreamB(outcome))

----------------------------------------------------------------------------
(* Function-level study of the hybrid strategies *)

\* a 51-character input, above the threshold
LongInput == [i \in 1..(HybridLengthThreshold + 1) |-> 120]  \* x

HybridInputs == { <<20320,22909>>, LongInput }  \* 你好

InitHybrid ==
    /\ DispatcherInit
    /\ probe \in [agent : HybridAgents, user_input : HybridInputs,
                  env : [qwen : Outcomes, deepseek : Outcomes]]
    /\ result = Pending

Hybrid ==
    /\ ~Applied
    /\ result' = <<use_hybrid_model(probe.agent, probe.user_input, <<>>, probe.env)>>
    /\ UNCHANGED probe
    /\ DispatcherIdle

SpecHybrid == InitHybrid /\ [][Hybrid]_vars

\* the text each sub-model answers for the probe, collected from its stream
FastOutput ==
    IF probe.agent = "conversation"
    THEN OutputA(<<25265,27465,65292,20351,29992,81,119,101,110,50,46,53,27169,22411,26102,21457,29983,38169,35823,58,32>>, probe.env.qwen)  \* 抱歉，使用Qwen2.5模型时发生错误: 
    ELSE OutputB(probe.env.qwen)

HeavyOutput ==
    IF probe.agent = "conversation"
    THEN OutputA(<<25265,27465,65292,20351,29992,68,101,101,112,83,101,101,107,27169,22411,26102,21457,29983,38169,35823,58,32>>, probe.env.deepseek)  \* 抱歉，使用DeepSeek模型时发生错误: 
    ELSE OutputB(probe.env.deepseek)

\* C7: in every agent's hybrid strategy, if at least one of the two
\* sub-model outputs is a non-empty string then the hybrid stream's
\* fragments concatenate to a non-empty string.
C7_HybridNonEmpty ==
    (Applied /\ (FastOutput # <<>> \/ HeavyOutput # <<>>))
        => Join(Value.frags) # <<>>

----------------------------------------------------------------------------
(* Sentiment tone templates *)

\* c.lower() == l for a character c and an ASCII lower-case letter l: the letter, its
\* capital and, for k, the Kelvin sign U+212A (no other character of Unicode lowers to an
\* ASCII letter; U+0130 lowers to i followed by U+0307)
LowersTo(c, l) == c = l \/ c = l - 32 \/ (l = 107 /\ c = 8490)  \* k

\* s.lower() == key for a key of ASCII lower-case letters
LowerIs(s, key) == Len(s) = Len(key) /\ \A i \in 1..Len(s) : LowersTo(s[i], key[i])

\* str(n) of a natural number
RECURSIVE Decimal(_)
Decimal(n) ==
    IF n < 10 THEN <<48 + n>>  \* 0
    ELSE Decimal(n \div 10) \o <<48 + (n % 10)>>  \* 0

\* f"{x:.1%}" of x = permille / 1000
FormatPercent1(permille) ==
    Decimal(permille \div 10) \o <<46, 48 + (permille % 10), 37>>  \* . | 0 | %

\* ConversationAgent.sentiment_templates: each template is the text before
\* {response}; nothing follows {response} in any of them
ConversationAgent_sentiment_templates(sentiment) ==
    CASE LowerIs(sentiment, <<112,111,115,105,116,105,118,101>>) ->  \* positive
            << <<30475,24471,20986,26469,24744,24515,24773,19981,38169,65281>>, <<24456,39640,20852,30475,21040,24744,36825,20040,24320,24515,65281>>, <<24744,30340,22909,24515,24773,24863,26579,20102,25105,65281>> >>  \* 看得出来您心情不错！ | 很高兴看到您这么开心！ | 您的好心情感染了我！
      [] LowerIs(sentiment, <<110,101,103,97,116,105,118,101>>) ->  \* negative
            << <<29702,35299,24744,30340,24515,24773,12290>>, <<21035,25285,24515,65292,35753,25105,20204,19968,36215,26469,35299,20915,36825,20010,38382,39064,12290>>, <<25105,26126,30333,24744,30340,24863,21463,12290>> >>  \* 理解您的心情。 | 别担心，让我们一起来解决这个问题。 | 我明白您的感受。
      [] OTHER ->
            << <<>>, <<22909,30340,65292,25105,26126,30333,20102,12290>>, <<25105,26469,24110,24744,35299,31572,12290>> >>  \*  | 好的，我明白了。 | 我来帮您解答。

\* ConversationAgent._adjust_response_with_sentiment; choice and
\* reply_choice are the indices random.choice draws, valid is FALSE for a
\* result that lacks a key the function reads
ConversationAgent_adjust_response_with_sentiment(base_response, sentiment_result, choice, reply_choice, debug_mode) ==
    IF ~sentiment_result.valid THEN base_response
    ELSE
    LET sentiment == sentiment_result.sentiment_analysis.sentiment
        templates == ConversationAgent_sentiment_templates(sentiment)
        template == templates[choice]
        emotion == sentiment_result.emotion_analysis.main_emotion
        suggested_replies == sentiment_result.emotion_analysis.suggested_replies
        context_info ==
            << <<91,24773,24863,20542,21521,58,32>> \o sentiment \o <<44,32,32622,20449,24230,58,32>>  \* [情感倾向:  | , 置信度: 
                   \o FormatPercent1(sentiment_result.sentiment_analysis.confidence)
                   \o <<93>>,  \* ]
               <<91,20027,35201,24773,32490,58,32>> \o emotion \o <<44,32,32622,20449,24230,58,32>>  \* [主要情绪:  | , 置信度: 
                   \o FormatPercent1(sentiment_result.emotion_analysis.confidence)
                   \o <<93>> >>  \* ]
            \o (IF suggested_replies # <<>>
                THEN << <<91,24314,35758,22238,22797,58,32>> \o suggested_replies[reply_choice] \o <<93>> >>  \* [建议回复:  | ]
                ELSE <<>>)
        final_response == template \o base_response
    IN IF debug_mode
       THEN context_info[1]
                \o Join([n \in 1..(Len(context_info) - 1) |-> <<10>> \o context_info[n + 1]])  \* \n
                \o <<10,10>> \o final_response  \* \n\n
       ELSE final_response

GovernmentAgent_tone_prefix(sentiment) ==
    CASE sentiment = <<110,101,103,97,116,105,118,101>> -> <<25105,29702,35299,24744,30340,24515,24773,65292,35753,25105,26469,24110,24744,35299,20915,36825,20010,38382,39064,12290,10>>  \* negative | 我理解您的心情，让我来帮您解决这个问题。\n
      [] sentiment = <<112,111,115,105,116,105,118,101>> -> <<24456,39640,20852,30475,21040,24744,23545,36825,20214,20107,36825,20040,26377,28909,24773,65281,10>>  \* positive | 很高兴看到您对这件事这么有热情！\n
      [] OTHER -> <<>>  \* 

GovernmentAgent_tone_suffix(sentiment) ==
    CASE sentiment = <<110,101,103,97,116,105,118,101>> ->  \* negative
            <<10,10,22914,26524,24744,36824,26377,20219,20309,30097,38382,65292,38543,26102,37117,21487,20197,35810,38382,25105,12290,25105,20250,23613,26368,22823,21162,21147,20026,24744,25552,20379,24110,21161,12290>>  \* \n\n如果您还有任何疑问，随时都可以询问我。我会尽最大努力为您提供帮助。
      [] sentiment = <<112,111,115,105,116,105,118,101>> -> <<10,10,24076,26395,36825,20123,20449,24687,23545,24744,26377,24110,21161,12290,31069,24744,21150,20107,39034,21033,65281>>  \* positive | \n\n希望这些信息对您有帮助。祝您办事顺利！
      [] OTHER -> <<10,10,22914,26524,24744,38656,35201,26356,22810,20449,24687,65292,35831,38543,26102,35810,38382,12290>>  \* \n\n如果您需要更多信息，请随时询问。

GovernmentAgent_adjust_response_tone_swapped(response, sentiment) ==
    LET other == CASE sentiment = <<110,101,103,97,116,105,118,101>> -> <<112,111,115,105,116,105,118,101>>  \* negative | positive
                   [] sentiment = <<112,111,115,105,116,105,118,101>> -> <<110,101,103,97,116,105,118,101>>  \* positive | negative
                   [] OTHER -> sentiment
    IN GovernmentAgent_tone_prefix(other) \o response \o GovernmentAgent_tone_suffix(other)

\* GovernmentAgent._adjust_response_tone
GovernmentAgent_adjust_response_tone(response, sentiment) ==
    GovernmentAgent_tone_prefix(sentiment) \o response
        \o GovernmentAgent_tone_suffix(sentiment)

----------------------------------------------------------------------------
(* Function-level study of the tone adjustment *)

ToneAgents == {"conversation", "government"}
SentimentLabels == { <<112,111,115,105,116,105,118,101>>, <<110,101,103,97,116,105,118,101>>, <<110,101,117,116,114,97,108>> }  \* positive | negative | neutral
\* the unwrapped response texts
BaseResponses == { <<>>, <<65>>, <<22909,30340,32,98>> }  \*  | A | 好的 b
\* confidences, in thousandths
Confidences == {600, 995}

SentimentResults ==
    [valid : {TRUE},
     sentiment_analysis : [sentiment : SentimentLabels, confidence : Confidences],
     emotion_analysis : [main_emotion : { <<20013,24615>> }, confidence : {800},  \* 中性
                         suggested_replies : {<<>>, << <<21152,27833>> >>}]]  \* 加油

InitTone ==
    /\ DispatcherInit
    /\ probe \in [agent : ToneAgents, response : BaseResponses,
                  sentiment_result : SentimentResults,
                  choice : 1..3, debug_mode : BOOLEAN]
    /\ result = Pending

Tone ==
    /\ ~Applied
    /\ result' =
         << IF probe.agent = "conversation"
            THEN ConversationAgent_adjust_response_with_sentiment(
                     probe.response, probe.sentiment_result, probe.choice, 1,
                     probe.debug_mode)
            ELSE GovernmentAgent_adjust_response_tone(
                     probe.response, probe.sentiment_result.sentiment_analysis.sentiment) >>
    /\ UNCHANGED probe
    /\ DispatcherIdle

SpecTone == InitTone /\ [][Tone]_vars

IsSuffix(a, b) == Len(a) <= Len(b) /\ SubSeq(b, Len(b) - Len(a) + 1, Len(b)) = a

ProbeLabel == probe.sentiment_result.sentiment_analysis.sentiment

\* the designated prefixes of an agent for a label
TonePrefixes(agent, label) ==
    IF agent = "government" THEN {GovernmentAgent_tone_prefix(label)}
    ELSE {ConversationAgent_sentiment_templates(label)[n] : n \in 1..3}

\* C10 as stated: for a negative (positive) label the composed response is
\* an empathetic (affirming) prefix followed by the unwrapped response text,
\* and nothing else.
C10_PrefixThenResponse ==
    (Applied /\ ProbeLabel \in { <<110,101,103,97,116,105,118,101>>, <<112,111,115,105,116,105,118,101>> })  \* negative | positive
        => \E prefix \in TonePrefixes(probe.agent, ProbeLabel) :
               Value = prefix \o probe.response

\* C10 amended: for a negative (positive) label the composed response
\* contains an empathetic (affirming) prefix immediately followed by the
\* unwrapped response text.  The conversation agent's response ends with
\* them, and is exactly them unless debug_mode is on; the government
\* agent's response begins with them and ends with its closing words.
C10_PrefixedResponse ==
    (Applied /\ ProbeLabel \in { <<110,101,103,97,116,105,118,101>>, <<112,111,115,105,116,105,118,101>> })  \* negative | positive
        => \E prefix \in TonePrefixes(probe.agent, ProbeLabel) :
               /\ prefix # <<>>
               /\ IF probe.agent = "conversation"
                  THEN /\ IsSuffix(prefix \o probe.response, Value)
                       /\ ~probe.debug_mode => Value = prefix \o probe.response
                  ELSE Value = prefix \o probe.response
                                   \o GovernmentAgent_tone_suffix(ProbeLabel)

\* an agent has wrapped a non-empty response for a negative label
C10_Witness ==
    /\ Applied
    /\ ProbeLabel = <<110,101,103,97,116,105,118,101>>  \* negative
    /\ probe.response = <<65>>  \* A
    /\ Len(Value) > Len(probe.response)

----------------------------------------------------------------------------
(* Character classes *)

\* what \w matches (Unicode 14): the ranges of code points c with chr(c).isalnum(), and the underscore
WordRanges ==
    { <<48,57>>, <<65,90>>, <<95,95>>, <<97,122>>, <<170,170>>, <<178,179>>, <<181,181>>, <<185,186>>,
      <<188,190>>, <<192,214>>, <<216,246>>, <<248,705>>, <<710,721>>, <<736,740>>, <<748,748>>,
      <<750,750>>, <<880,884>>, <<886,887>>, <<890,893>>, <<895,895>>, <<902,902>>, <<904,906>>,
      <<908,908>>, <<910,929>>, <<931,1013>>, <<1015,1153>>, <<1162,1327>>, <<1329,1366>>, <<1369,1369>>,
      <<1376,1416>>, <<1488,1514>>, <<1519,1522>>, <<1568,1610>>, <<1632,1641>>, <<1646,1647>>,
      <<1649,1747>>, <<1749,1749>>, <<1765,1766>>, <<1774,1788>>, <<1791,1791>>, <<1808,1808>>,
      <<1810,1839>>, <<1869,1957>>, <<1969,1969>>, <<1984,2026>>, <<2036,2037>>, <<2042,2042>>,
      <<2048,2069>>, <<2074,2074>>, <<2084,2084>>, <<2088,2088>>, <<2112,2136>>, <<2144,2154>>,
      <<2160,2183>>, <<2185,2190>>, <<2208,2249>>, <<2308,2361>>, <<2365,2365>>, <<2384,2384>>,
      <<2392,2401>>, <<2406,2415>>, <<2417,2432>>, <<2437,2444>>, <<2447,2448>>, <<2451,2472>>,
      <<2474,2480>>, <<2482,2482>>, <<2486,2489>>, <<2493,2493>>, <<2510,2510>>, <<2524,2525>>,
      <<2527,2529>>, <<2534,2545>>, <<2548,2553>>, <<2556,2556>>, <<2565,2570>>, <<2575,2576>>,
      <<2579,2600>>, <<2602,2608>>, <<2610,2611>>, <<2613,2614>>, <<2616,2617>>, <<2649,2652>>,
      <<2654,2654>>, <<2662,2671>>, <<2674,2676>>, <<2693,2701>>, <<2703,2705>>, <<2707,2728>>,
      <<2730,2736>>, <<2738,2739>>, <<2741,2745>>, <<2749,2749>>, <<2768,2768>>, <<2784,2785>>,
      <<2790,2799>>, <<2809,2809>>, <<2821,2828>>, <<2831,2832>>, <<2835,2856>>, <<2858,2864>>,
      <<2866,2867>>, <<2869,2873>>, <<2877,2877>>, <<2908,2909>>, <<2911,2913>>, <<2918,2927>>,
      <<2929,2935>>, <<2947,2947>>, <<2949,2954>>, <<2958,2960>>, <<2962,2965>>, <<2969,2970>>,
      <<2972,2972>>, <<2974,2975>>, <<2979,2980>>, <<2984,2986>>, <<2990,3001>>, <<3024,3024>>,
      <<3046,3058>>, <<3077,3084>>, <<3086,3088>>, <<3090,3112>>, <<3114,3129>>, <<3133,3133>>,
      <<3160,3162>>, <<3165,3165>>, <<3168,3169>>, <<3174,3183>>, <<3192,3198>>, <<3200,3200>>,
      <<3205,3212>>, <<3214,3216>>, <<3218,3240>>, <<3242,3251>>, <<3253,3257>>, <<3261,3261>>,
      <<3293,3294>>, <<3296,3297>>, <<3302,3311>>, <<3313,3314>>, <<3332,3340>>, <<3342,3344>>,
      <<3346,3386>>, <<3389,3389>>, <<3406,3406>>, <<3412,3414>>, <<3416,3425>>, <<3430,3448>>,
      <<3450,3455>>, <<3461,3478>>, <<3482,3505>>, <<3507,3515>>, <<3517,3517>>, <<3520,3526>>,
      <<3558,3567>>, <<3585,3632>>, <<3634,3635>>, <<3648,3654>>, <<3664,3673>>, <<3713,3714>>,
      <<3716,3716>>, <<3718,3722>>, <<3724,3747>>, <<3749,3749>>, <<3751,3760>>, <<3762,3763>>,
      <<3773,3773>>, <<3776,3780>>, <<3782,3782>>, <<3792,3801>>, <<3804,3807>>, <<3840,3840>>,
      <<3872,3891>>, <<3904,3911>>, <<3913,3948>>, <<3976,3980>>, <<4096,4138>>, <<4159,4169>>,
      <<4176,4181>>, <<4186,4189>>, <<4193,4193>>, <<4197,4198>>, <<4206,4208>>, <<4213,4225>>,
      <<4238,4238>>, <<4240,4249>>, <<4256,4293>>, <<4295,4295>>, <<4301,4301>>, <<4304,4346>>,
      <<4348,4680>>, <<4682,4685>>, <<4688,4694>>, <<4696,4696>>, <<4698,4701>>, <<4704,4744>>,
      <<4746,4749>>, <<4752,4784>>, <<4786,4789>>, <<4792,4798>>, <<4800,4800>>, <<4802,4805>>,
      <<4808,4822>>, <<4824,4880>>, <<4882,4885>>, <<4888,4954>>, <<4969,4988>>, <<4992,5007>>,
      <<5024,5109>>, <<5112,5117>>, <<5121,5740>>, <<5743,5759>>, <<5761,5786>>, <<5792,5866>>,
      <<5870,5880>>, <<5888,5905>>, <<5919,5937>>, <<5952,5969>>, <<5984,5996>>, <<5998,6000>>,
      <<6016,6067>>, <<6103,6103>>, <<6108,6108>>, <<6112,6121>>, <<6128,6137>>, <<6160,6169>>,
      <<6176,6264>>, <<6272,6276>>, <<6279,6312>>, <<6314,6314>>, <<6320,6389>>, <<6400,6430>>,
      <<6470,6509>>, <<6512,6516>>, <<6528,6571>>, <<6576,6601>>, <<6608,6618>>, <<6656,6678>>,
      <<6688,6740>>, <<6784,6793>>, <<6800,6809>>, <<6823,6823>>, <<6917,6963>>, <<6981,6988>>,
      <<6992,7001>>, <<7043,7072>>, <<7086,7141>>, <<7168,7203>>, <<7232,7241>>, <<7245,7293>>,
      <<7296,7304>>, <<7312,7354>>, <<7357,7359>>, <<7401,7404>>, <<7406,7411>>, <<7413,7414>>,
      <<7418,7418>>, <<7424,7615>>, <<7680,7957>>, <<7960,7965>>, <<7968,8005>>, <<8008,8013>>,
      <<8016,8023>>, <<8025,8025>>, <<8027,8027>>, <<8029,8029>>, <<8031,8061>>, <<8064,8116>>,
      <<8118,8124>>, <<8126,8126>>, <<8130,8132>>, <<8134,8140>>, <<8144,8147>>, <<8150,8155>>,
      <<8160,8172>>, <<8178,8180>>, <<8182,8188>>, <<8304,8305>>, <<8308,8313>>, <<8319,8329>>,
      <<8336,8348>>, <<8450,8450>>, <<8455,8455>>, <<8458,8467>>, <<8469,8469>>, <<8473,8477>>,
      <<8484,8484>>, <<8486,8486>>, <<8488,8488>>, <<8490,8493>>, <<8495,8505>>, <<8508,8511>>,
      <<8517,8521>>, <<8526,8526>>, <<8528,8585>>, <<9312,9371>>, <<9450,9471>>, <<10102,10131>>,
      <<11264,11492>>, <<11499,11502>>, <<11506,11507>>, <<11517,11517>>, <<11520,11557>>,
      <<11559,11559>>, <<11565,11565>>, <<11568,11623>>, <<11631,11631>>, <<11648,11670>>,
      <<11680,11686>>, <<11688,11694>>, <<11696,11702>>, <<11704,11710>>, <<11712,11718>>,
      <<11720,11726>>, <<11728,11734>>, <<11736,11742>>, <<11823,11823>>, <<12293,12295>>,
      <<12321,12329>>, <<12337,12341>>, <<12344,12348>>, <<12353,12438>>, <<12445,12447>>,
      <<12449,12538>>, <<12540,12543>>, <<12549,12591>>, <<12593,12686>>, <<12690,12693>>,
      <<12704,12735>>, <<12784,12799>>, <<12832,12841>>, <<12872,12879>>, <<12881,12895>>,
      <<12928,12937>>, <<12977,12991>>, <<13312,19903>>, <<19968,42124>>, <<42192,42237>>,
      <<42240,42508>>, <<42512,42539>>, <<42560,42606>>, <<42623,42653>>, <<42656,42735>>,
      <<42775,42783>>, <<42786,42888>>, <<42891,42954>>, <<42960,42961>>, <<42963,42963>>,
      <<42965,42969>>, <<42994,43009>>, <<43011,43013>>, <<43015,43018>>, <<43020,43042>>,
      <<43056,43061>>, <<43072,43123>>, <<43138,43187>>, <<43216,43225>>, <<43250,43255>>,
      <<43259,43259>>, <<43261,43262>>, <<43264,43301>>, <<43312,43334>>, <<43360,43388>>,
      <<43396,43442>>, <<43471,43481>>, <<43488,43492>>, <<43494,43518>>, <<43520,43560>>,
      <<43584,43586>>, <<43588,43595>>, <<43600,43609>>, <<43616,43638>>, <<43642,43642>>,
      <<43646,43695>>, <<43697,43697>>, <<43701,43702>>, <<43705,43709>>, <<43712,43712>>,
      <<43714,43714>>, <<43739,43741>>, <<43744,43754>>, <<43762,43764>>, <<43777,43782>>,
      <<43785,43790>>, <<43793,43798>>, <<43808,43814>>, <<43816,43822>>, <<43824,43866>>,
      <<43868,43881>>, <<43888,44002>>, <<44016,44025>>, <<44032,55203>>, <<55216,55238>>,
      <<55243,55291>>, <<63744,64109>>, <<64112,64217>>, <<64256,64262>>, <<64275,64279>>,
      <<64285,64285>>, <<64287,64296>>, <<64298,64310>>, <<64312,64316>>, <<64318,64318>>,
      <<64320,64321>>, <<64323,64324>>, <<64326,64433>>, <<64467,64829>>, <<64848,64911>>,
      <<64914,64967>>, <<65008,65019>>, <<65136,65140>>, <<65142,65276>>, <<65296,65305>>,
      <<65313,65338>>, <<65345,65370>>, <<65382,65470>>, <<65474,65479>>, <<65482,65487>>,
      <<65490,65495>>, <<65498,65500>>, <<65536,65547>>, <<65549,65574>>, <<65576,65594>>,
      <<65596,65597>>, <<65599,65613>>, <<65616,65629>>, <<65664,65786>>, <<65799,65843>>,
      <<65856,65912>>, <<65930,65931>>, <<66176,66204>>, <<66208,66256>>, <<66273,66299>>,
      <<66304,66339>>, <<66349,66378>>, <<66384,66421>>, <<66432,66461>>, <<66464,66499>>,
      <<66504,66511>>, <<66513,66517>>, <<66560,66717>>, <<66720,66729>>, <<66736,66771>>,
      <<66776,66811>>, <<66816,66855>>, <<66864,66915>>, <<66928,66938>>, <<66940,66954>>,
      <<66956,66962>>, <<66964,66965>>, <<66967,66977>>, <<66979,66993>>, <<66995,67001>>,
      <<67003,67004>>, <<67072,67382>>, <<67392,67413>>, <<67424,67431>>, <<67456,67461>>,
      <<67463,67504>>, <<67506,67514>>, <<67584,67589>>, <<67592,67592>>, <<67594,67637>>,
      <<67639,67640>>, <<67644,67644>>, <<67647,67669>>, <<67672,67702>>, <<67705,67742>>,
      <<67751,67759>>, <<67808,67826>>, <<67828,67829>>, <<67835,67867>>, <<67872,67897>>,
      <<67968,68023>>, <<68028,68047>>, <<68050,68096>>, <<68112,68115>>, <<68117,68119>>,
      <<68121,68149>>, <<68160,68168>>, <<68192,68222>>, <<68224,68255>>, <<68288,68295>>,
      <<68297,68324>>, <<68331,68335>>, <<68352,68405>>, <<68416,68437>>, <<68440,68466>>,
      <<68472,68497>>, <<68521,68527>>, <<68608,68680>>, <<68736,68786>>, <<68800,68850>>,
      <<68858,68899>>, <<68912,68921>>, <<69216,69246>>, <<69248,69289>>, <<69296,69297>>,
      <<69376,69415>>, <<69424,69445>>, <<69457,69460>>, <<69488,69505>>, <<69552,69579>>,
      <<69600,69622>>, <<69635,69687>>, <<69714,69743>>, <<69745,69746>>, <<69749,69749>>,
      <<69763,69807>>, <<69840,69864>>, <<69872,69881>>, <<69891,69926>>, <<69942,69951>>,
      <<69956,69956>>, <<69959,69959>>, <<69968,70002>>, <<70006,70006>>, <<70019,70066>>,
      <<70081,70084>>, <<70096,70106>>, <<70108,70108>>, <<70113,70132>>, <<70144,70161>>,
      <<70163,70187>>, <<70272,70278>>, <<70280,70280>>, <<70282,70285>>, <<70287,70301>>,
      <<70303,70312>>, <<70320,70366>>, <<70384,70393>>, <<70405,70412>>, <<70415,70416>>,
      <<70419,70440>>, <<70442,70448>>, <<70450,70451>>, <<70453,70457>>, <<70461,70461>>,
      <<70480,70480>>, <<70493,70497>>, <<70656,70708>>, <<70727,70730>>, <<70736,70745>>,
      <<70751,70753>>, <<70784,70831>>, <<70852,70853>>, <<70855,70855>>, <<70864,70873>>,
      <<71040,71086>>, <<71128,71131>>, <<71168,71215>>, <<71236,71236>>, <<71248,71257>>,
      <<71296,71338>>, <<71352,71352>>, <<71360,71369>>, <<71424,71450>>, <<71472,71483>>,
      <<71488,71494>>, <<71680,71723>>, <<71840,71922>>, <<71935,71942>>, <<71945,71945>>,
      <<71948,71955>>, <<71957,71958>>, <<71960,71983>>, <<71999,71999>>, <<72001,72001>>,
      <<72016,72025>>, <<72096,72103>>, <<72106,72144>>, <<72161,72161>>, <<72163,72163>>,
      <<72192,72192>>, <<72203,72242>>, <<72250,72250>>, <<72272,72272>>, <<72284,72329>>,
      <<72349,72349>>, <<72368,72440>>, <<72704,72712>>, <<72714,72750>>, <<72768,72768>>,
      <<72784,72812>>, <<72818,72847>>, <<72960,72966>>, <<72968,72969>>, <<72971,73008>>,
      <<73030,73030>>, <<73040,73049>>, <<73056,73061>>, <<73063,73064>>, <<73066,73097>>,
      <<73112,73112>>, <<73120,73129>>, <<73440,73458>>, <<73648,73648>>, <<73664,73684>>,
      <<73728,74649>>, <<74752,74862>>, <<74880,75075>>, <<77712,77808>>, <<77824,78894>>,
      <<82944,83526>>, <<92160,92728>>, <<92736,92766>>, <<92768,92777>>, <<92784,92862>>,
      <<92864,92873>>, <<92880,92909>>, <<92928,92975>>, <<92992,92995>>, <<93008,93017>>,
      <<93019,93025>>, <<93027,93047>>, <<93053,93071>>, <<93760,93846>>, <<93952,94026>>,
      <<94032,94032>>, <<94099,94111>>, <<94176,94177>>, <<94179,94179>>, <<94208,100343>>,
      <<100352,101589>>, <<101632,101640>>, <<110576,110579>>, <<110581,110587>>, <<110589,110590>>,
      <<110592,110882>>, <<110928,110930>>, <<110948,110951>>, <<110960,111355>>, <<113664,113770>>,
      <<113776,113788>>, <<113792,113800>>, <<113808,113817>>, <<119520,119539>>, <<119648,119672>>,
      <<119808,119892>>, <<119894,119964>>, <<119966,119967>>, <<119970,119970>>, <<119973,119974>>,
      <<119977,119980>>, <<119982,119993>>, <<119995,119995>>, <<119997,120003>>, <<120005,120069>>,
      <<120071,120074>>, <<120077,120084>>, <<120086,120092>>, <<120094,120121>>, <<120123,120126>>,
      <<120128,120132>>, <<120134,120134>>, <<120138,120144>>, <<120146,120485>>, <<120488,120512>>,
      <<120514,120538>>, <<120540,120570>>, <<120572,120596>>, <<120598,120628>>, <<120630,120654>>,
      <<120656,120686>>, <<120688,120712>>, <<120714,120744>>, <<120746,120770>>, <<120772,120779>>,
      <<120782,120831>>, <<122624,122654>>, <<123136,123180>>, <<123191,123197>>, <<123200,123209>>,
      <<123214,123214>>, <<123536,123565>>, <<123584,123627>>, <<123632,123641>>, <<124896,124902>>,
      <<124904,124907>>, <<124909,124910>>, <<124912,124926>>, <<124928,125124>>, <<125127,125135>>,
      <<125184,125251>>, <<125259,125259>>, <<125264,125273>>, <<126065,126123>>, <<126125,126127>>,
      <<126129,126132>>, <<126209,126253>>, <<126255,126269>>, <<126464,126467>>, <<126469,126495>>,
      <<126497,126498>>, <<126500,126500>>, <<126503,126503>>, <<126505,126514>>, <<126516,126519>>,
      <<126521,126521>>, <<126523,126523>>, <<126530,126530>>, <<126535,126535>>, <<126537,126537>>,
      <<126539,126539>>, <<126541,126543>>, <<126545,126546>>, <<126548,126548>>, <<126551,126551>>,
      <<126553,126553>>, <<126555,126555>>, <<126557,126557>>, <<126559,126559>>, <<126561,126562>>,
      <<126564,126564>>, <<126567,126570>>, <<126572,126578>>, <<126580,126583>>, <<126585,126588>>,
      <<126590,126590>>, <<126592,126601>>, <<126603,126619>>, <<126625,126627>>, <<126629,126633>>,
      <<126635,126651>>, <<127232,127244>>, <<130032,130041>>, <<131072,173791>>, <<173824,177976>>,
      <<177984,178205>>, <<178208,183969>>, <<183984,191456>>, <<194560,195101>>, <<196608,201546>> }

WordChar(c) == \E r \in WordRanges : r[1] <= c /\ c <= r[2]

\* what [^\w\s] matches
Punctuation(c) == ~WordChar(c) /\ c \notin Whitespace

\* what [一-龥] matches: the code points from U+4E00 to U+9FA5
CJK == 19968..40869

\* str.strip()
RECURSIVE Strip(_)
Strip(s) ==
    IF s = <<>> THEN s
    ELSE IF Head(s) \in Whitespace THEN Strip(Tail(s))
    ELSE IF s[Len(s)] \in Whitespace THEN Strip(SubSeq(s, 1, Len(s) - 1))
    ELSE s

\* repr() of a str without quotes, backslashes or control characters
Repr(s) == <<39>> \o s \o <<39>>  \* ' | '

\* sep.join(parts)
RECURSIVE JoinWith(_, _)
JoinWith(sep, parts) ==
    IF parts = <<>> THEN <<>>
    ELSE IF Len(parts) = 1 THEN parts[1]
    ELSE parts[1] \o sep \o JoinWith(sep, Tail(parts))

\* str() of a list of str
ReprList(items) ==
    <<91>> \o JoinWith(<<44,32>>, [n \in 1..Len(items) |-> Repr(items[n])]) \o <<93>>  \* [ | ,  | ]

\* utils/helper_functions.py extract_keywords: the words of at least two
\* characters between punctuation and whitespace, as a set
extract_keywords(text) ==
    LET sep(i) == i < 1 \/ i > Len(text)
                      \/ Punctuation(text[i]) \/ text[i] \in Whitespace
    IN {SubSeq(text, i, j) : <<i, j>> \in
            {p \in (1..Len(text)) \X (1..Len(text)) :
                /\ p[1] < p[2]
                /\ \A k \in p[1]..p[2] : ~sep(k)
                /\ sep(p[1] - 1)
                /\ sep(p[2] + 1)}}

\* the orders in which list(set(...)) can present a set of keywords
Orderings(S) ==
    {order \in [1..Cardinality(S) -> S] :
        \A a, b \in 1..Cardinality(S) : a # b => order[a] # order[b]}

----------------------------------------------------------------------------
(* The context dict.  A flag is "True", "False" or "absent" (no such key);   *)
(* a strategy key is a text or NoKey (no such key).                          *)

NoKey == <<-2>>

AutoStrategy == <<33258,21160,65288,26234,33021,36873,25321,65289>>  \* 自动（智能选择）
StrategyNames == {AutoStrategy, <<81,119,101,110,50,46,53>>, <<68,101,101,112,83,101,101,107>>, <<28151,21512,27169,24335>>}  \* Qwen2.5 | DeepSeek | 混合模式

\* truthiness of context.get(flag, True) for a boolean flag
FlagOn(value) == value # "False"

\* context.get(key, "自动（智能选择）")
StrategyKey(value) == IF value = NoKey THEN AutoStrategy ELSE value

\* context["conversation_history"] is the record [id, list] of a list
\* object: list is what the object holds and id which object it is.  NoList
\* stands for a context without the key
NoList == [id |-> -1, list |-> <<>>]

\* the Dispatcher's own list object, self.conversation_history, which the
\* caller has put into the context: what it holds is what the attribute
\* holds when the context is read
DispatcherList == [id |-> 0, list |-> <<>>]

\* context.get("conversation_history", [])
ContextHistory(context) == context.conversation_history.list

\* the context as an agent reads it while self.conversation_history holds
\* history
BoundContext(context, history) ==
    IF context.conversation_history.id = 0
    THEN [context EXCEPT !.conversation_history.list = history]
    ELSE context

----------------------------------------------------------------------------
(* ConversationAgent.process *)

ConversationAgent_strategy(key, user_input, history, env) ==
    CASE key = AutoStrategy -> ConversationAgent_auto_select_model(user_input, history, env)
      [] key = <<81,119,101,110,50,46,53>> -> ConversationAgent_use_qwen_model(user_input, history, env)  \* Qwen2.5
      [] key = <<68,101,101,112,83,101,101,107>> -> ConversationAgent_use_deepseek_model(user_input, history, env)  \* DeepSeek
      [] key = <<28151,21512,27169,24335>> -> ConversationAgent_use_hybrid_model(user_input, history, env)  \* 混合模式

\* self.model_selection_strategies[key]: the key itself when it is one of
\* the four names; <<>> stands for the KeyError of any other key
ConversationAgent_lookup(key) ==
    IF key \in StrategyNames THEN key ELSE <<>>

\* the rest of ConversationAgent.process once the strategy's stream has
\* been collected into base_response
ConversationAgent_respond(s, context, env) ==
    LET sentiment_enabled == FlagOn(context.sentiment_enabled)
        show_analysis == FlagOn(context.show_analysis)
        analysis_report == IF sentiment_enabled /\ show_analysis
                           THEN env.analysis_report ELSE <<>>
        base_response == Join(s.frags)
        adjusted_response ==
            IF sentiment_enabled
            THEN ConversationAgent_adjust_response_with_sentiment(base_response, env.sentiment_result, env.choice, 1, env.debug_mode)
            ELSE base_response
        full_response ==
            IF sentiment_enabled /\ show_analysis /\ analysis_report # <<>>
            THEN analysis_report \o <<10,10,27169,22411,22238,31572,65306,10>> \o adjusted_response  \* \n\n模型回答：\n
            ELSE adjusted_response
    IN [frags |-> Chars(full_response), calls |-> s.calls, hist |-> s.hist]

\* for chunk in strategy(...): base_response += chunk, inside the try of
\* ConversationAgent.process
ConversationAgent_collect(s, context, env) ==
    IF ~AllStr(s.frags)
    THEN [frags |-> << <<25265,27465,65292,22788,29702,24744,30340,36755,20837,26102,36935,21040,20102,38382,39064,58,32>> \o ConcatError >>,  \* 抱歉，处理您的输入时遇到了问题: 
          calls |-> s.calls,
          hist |-> s.hist]
    ELSE ConversationAgent_respond(s, context, env)

\* env.sentiment_result is what sentiment_tool.analyze_combined returns for
\* the input and env.analysis_report what _format_sentiment_analysis makes
\* of it; env.choice is the template random.choice draws and env.debug_mode
\* is config.get("debug_mode", False)
ConversationAgent_process(user_input, history, context, env) ==
    LET key == StrategyKey(context.model_option)
        strategy == ConversationAgent_lookup(key)
    IN IF strategy = <<>>
       THEN [frags |-> << <<25265,27465,65292,22788,29702,24744,30340,36755,20837,26102,36935,21040,20102,38382,39064,58,32>> \o Repr(key) >>,  \* 抱歉，处理您的输入时遇到了问题: 
             calls |-> <<>>,
             hist |-> history]
       ELSE ConversationAgent_collect(
                ConversationAgent_strategy(strategy, user_input, history, env),
                context, env)

----------------------------------------------------------------------------
(* EducationAgent *)

\* self.knowledge_base, in insertion order
EducationAgent_knowledge_base ==
    << [subject |-> <<25968,23398>>, topics |-> <<  \* 数学
          [topic |-> <<20195,25968>>, subtopics |-> << <<26041,31243,24335>>, <<20989,25968>>, <<22810,39033,24335>>, <<30697,38453>> >>],  \* 代数 | 方程式 | 函数 | 多项式 | 矩阵
          [topic |-> <<20960,20309>>, subtopics |-> << <<19977,35282,24418>>, <<22278>>, <<26925,22278>>, <<21521,37327>> >>],  \* 几何 | 三角形 | 圆 | 椭圆 | 向量
          [topic |-> <<24494,31215,20998>>, subtopics |-> << <<23548,25968>>, <<31215,20998>>, <<26497,38480>>, <<24494,20998,26041,31243>> >>] >>],  \* 微积分 | 导数 | 积分 | 极限 | 微分方程
       [subject |-> <<29289,29702>>, topics |-> <<  \* 物理
          [topic |-> <<21147,23398>>, subtopics |-> << <<29275,39039,23450,24459>>, <<21160,37327>>, <<33021,37327,23432,24658>> >>],  \* 力学 | 牛顿定律 | 动量 | 能量守恒
          [topic |-> <<30005,30913,23398>>, subtopics |-> << <<30005,22330>>, <<30913,22330>>, <<30005,30913,27874>> >>],  \* 电磁学 | 电场 | 磁场 | 电磁波
          [topic |-> <<28909,21147,23398>>, subtopics |-> << <<29109>>, <<28909,21147,23398,23450,24459>>, <<28909,20256,23548>> >>] >>],  \* 热力学 | 熵 | 热力学定律 | 热传导
       [subject |-> <<21270,23398>>, topics |-> <<  \* 化学
          [topic |-> <<26377,26426,21270,23398>>, subtopics |-> << <<28867,31867>>, <<37255>>, <<37240>> >>],  \* 有机化学 | 烃类 | 醇 | 酸
          [topic |-> <<26080,26426,21270,23398>>, subtopics |-> << <<20803,32032,21608,26399,34920>>, <<21270,23398,38190>>, <<27687,21270,36824,21407>> >>],  \* 无机化学 | 元素周期表 | 化学键 | 氧化还原
          [topic |-> <<29289,29702,21270,23398>>, subtopics |-> << <<21270,23398,24179,34913>>, <<21453,24212,21160,21147,23398>>, <<28909,21270,23398>> >>] >>],  \* 物理化学 | 化学平衡 | 反应动力学 | 热化学
       [subject |-> <<35821,25991>>, topics |-> <<  \* 语文
          [topic |-> <<21476,20195,25991,23398>>, subtopics |-> << <<35799,35789>>, <<25955,25991>>, <<23567,35828>> >>],  \* 古代文学 | 诗词 | 散文 | 小说
          [topic |-> <<29616,20195,25991,23398>>, subtopics |-> << <<23567,35828>>, <<25955,25991>>, <<25103,21095>> >>],  \* 现代文学 | 小说 | 散文 | 戏剧
          [topic |-> <<35821,27861,20462,36766>>, subtopics |-> << <<20462,36766,25163,27861>>, <<21477,27861,20998,26512>>, <<35789,27719>> >>] >>],  \* 语法修辞 | 修辞手法 | 句法分析 | 词汇
       [subject |-> <<33521,35821>>, topics |-> <<  \* 英语
          [topic |-> <<35821,27861>>, subtopics |-> << <<26102,24577>>, <<35821,24577>>, <<20174,21477>> >>],  \* 语法 | 时态 | 语态 | 从句
          [topic |-> <<35789,27719>>, subtopics |-> << <<21516,20041,35789>>, <<21453,20041,35789>>, <<35789,26681,35789,32512>> >>],  \* 词汇 | 同义词 | 反义词 | 词根词缀
          [topic |-> <<38405,35835>>, subtopics |-> << <<29702,35299>>, <<25512,26029>>, <<20027,26088>> >>] >>] >>  \* 阅读 | 理解 | 推断 | 主旨

\* self.subject_weights, in tenths
EducationAgent_subject_weights == <<10, 10, 10, 9, 9>>

\* str() of a {topic: subtopics} dict
EducationAgent_repr_topics(topics) ==
    <<123>> \o JoinWith(<<44,32>>,  \* { | , 
                 [n \in 1..Len(topics) |->
                     Repr(topics[n].topic) \o <<58,32>> \o ReprList(topics[n].subtopics)])  \* : 
        \o <<125>>  \* }

EducationAgent_analyze_query(query, keywords) ==
    LET kb == EducationAgent_knowledge_base
        score(n) == EducationAgent_subject_weights[n]
                        * Cardinality({kw \in keywords :
                              \E t \in 1..Len(kb[n].topics) : kb[n].topics[t].topic = kw})
        best == CHOOSE n \in 1..Len(kb) :
                    /\ \A m \in 1..Len(kb) : score(m) <= score(n)
                    /\ \A m \in 1..(n - 1) : score(m) < score(n)
        best_subject == IF \E n \in 1..Len(kb) : score(n) # 0
                        THEN kb[best].subject ELSE <<36890,29992>>  \* 通用
        query_type ==
            IF ContainsAny(query, << <<20160,20040,26159>>, <<27010,24565>>, <<23450,20041>>, <<20171,32461>> >>)  \* 什么是 | 概念 | 定义 | 介绍
            THEN "subject_info"
            ELSE IF ContainsAny(query, << <<38382,39064>>, <<35299,31572>>, <<24590,20040,20570>>, <<22914,20309,35299>> >>)  \* 问题 | 解答 | 怎么做 | 如何解
            THEN "problem_solving"
            ELSE IF ContainsAny(query, << <<36164,28304>>, <<25945,26448>>, <<20070,31821>>, <<35270,39057>>, <<25512,33616>> >>)  \* 资源 | 教材 | 书籍 | 视频 | 推荐
            THEN "learning_resource"
            ELSE "general"
    IN [query_type |-> query_type, subject |-> best_subject]

\* the lines _build_prompt adds for the topics of one subject
EducationAgent_topic_lines(topics, keywords) ==
    Join([t \in 1..Len(topics) |->
            IF \E kw \in keywords : Contains(ReprList(topics[t].subtopics), kw)
            THEN <<10,45,32>> \o topics[t].topic \o <<58,32>>  \* \n-  | : 
                     \o JoinWith(<<44,32>>, topics[t].subtopics)  \* , 
            ELSE <<>>])

EducationAgent_build_prompt(user_input, query_type, subject, keywords) ==
    LET kb == EducationAgent_knowledge_base
        base == <<20316,20026,19968,20010,19987,19994,30340,25945,32946,36741,23548,21161,25163,65292,35831,24110,21161,35299,31572,20197,19979,38382,39064,58,10>> \o user_input \o <<10>>  \* 作为一个专业的教育辅导助手，请帮助解答以下问题:\n | \n
        hint == CASE query_type = "subject_info" ->
                        <<10,35831,35814,32454,35299,37322,30456,20851,27010,24565,65292,21253,25324,23450,20041,12289,29305,28857,21644,24212,29992,22330,26223,12290>>  \* \n请详细解释相关概念，包括定义、特点和应用场景。
                  [] query_type = "problem_solving" -> <<10,35831,25552,20379,35814,32454,30340,35299,39064,24605,36335,21644,27493,39588,12290>>  \* \n请提供详细的解题思路和步骤。
                  [] query_type = "resource_recommendation" ->
                        <<10,35831,25512,33616,30456,20851,30340,23398,20064,36164,28304,21644,21442,32771,26448,26009,12290>>  \* \n请推荐相关的学习资源和参考材料。
                  [] OTHER -> <<>>
        known == {n \in 1..Len(kb) : kb[n].subject = subject}
        reference ==
            IF known # {}
            THEN LET n == CHOOSE m \in known : TRUE
                 IN <<10,21442,32771>> \o subject \o <<30456,20851,30693,35782,65306>>  \* \n参考 | 相关知识：
                        \o EducationAgent_topic_lines(kb[n].topics, keywords)
            ELSE Join([n \in 1..Len(kb) |->
                    IF \E kw \in keywords :
                           Contains(EducationAgent_repr_topics(kb[n].topics), kw)
                    THEN <<10,21442,32771>> \o kb[n].subject \o <<30456,20851,30693,35782,65306>>  \* \n参考 | 相关知识：
                             \o EducationAgent_topic_lines(kb[n].topics, keywords)
                    ELSE <<>>])
    IN base \o hint \o reference

\* the direct strategies return the client's stream
EducationAgent_use_qwen_model(user_input, history, env) ==
    LET q == qwen_model_generate(user_input, history, env.qwen)
    IN [frags |-> q.frags, calls |-> <<q.call>>, hist |-> q.passed]

\* the DeepSeek client is given a fresh list (_format_conversation_history)
EducationAgent_use_deepseek_model(user_input, history, env) ==
    LET d == deepseek_model_generate(user_input, history, env.deepseek)
    IN [frags |-> d.frags, calls |-> <<d.call>>, hist |-> history]

\* the prompt length above which the automatic choice is DeepSeek
AutoLengthThreshold == 100

EducationAgent_auto_select_model(user_input, history, env) ==
    IF Len(user_input) > AutoLengthThreshold
       \/ Contains(user_input, <<35814,32454>>) \/ Contains(user_input, <<35299,37322>>)  \* 详细 | 解释
    THEN EducationAgent_use_deepseek_model(user_input, history, env)
    ELSE EducationAgent_use_qwen_model(user_input, history, env)

EducationAgent_strategy(key, user_input, history, env) ==
    CASE key = <<81,119,101,110,50,46,53>> -> EducationAgent_use_qwen_model(user_input, history, env)  \* Qwen2.5
      [] key = <<68,101,101,112,83,101,101,107>> -> EducationAgent_use_deepseek_model(user_input, history, env)  \* DeepSeek
      [] key = <<28151,21512,27169,24335>> -> EducationAgent_use_hybrid_model(user_input, history, env)  \* 混合模式
      [] OTHER -> EducationAgent_auto_select_model(user_input, history, env)

\* EducationAgent.process: result["response"], the stream of the strategy
\* selected by context["model_strategy"], run on the prompt and on the list
\* of context["conversation_history"]; hist is that list once the stream
\* has been started
EducationAgent_process(user_input, context, env) ==
    LET keywords == extract_keywords(user_input)
        a == EducationAgent_analyze_query(user_input, keywords)
        prompt == EducationAgent_build_prompt(user_input, a.query_type, a.subject, keywords)
        model_strategy == StrategyKey(context.model_strategy)
    IN EducationAgent_strategy(model_strategy, prompt, ContextHistory(context), env)

----------------------------------------------------------------------------
(* EcommerceAgent: the query type, the order lookup and the model strategies *)

EcommerceAgent_analyze_query(query) ==
    IF ContainsAny(query, << <<35746,21333>>, <<29289,27969>>, <<21457,36135>> >>)  \* 订单 | 物流 | 发货
       \/ \E i \in 1..Len(query) : LowersTo(query[i], 111)  \* o
    THEN "order_query"
    ELSE IF ContainsAny(query, << <<25512,33616>>, <<26377,20160,20040,22909>>, <<21738,20010,22909>> >>)  \* 推荐 | 有什么好 | 哪个好
    THEN "product_recommendation"
    ELSE IF ContainsAny(query, << <<25628,32034>>, <<26597,25214>>, <<25214>>, <<26377,27809,26377>> >>)  \* 搜索 | 查找 | 找 | 有没有
    THEN "product_search"
    ELSE IF ContainsAny(query, << <<24590,20040,36873>>, <<22914,20309,25361,36873>>, <<36141,20080,24314,35758>> >>)  \* 怎么选 | 如何挑选 | 购买建议
    THEN "shopping_guide"
    ELSE IF Contains(query, <<36141,29289,36710>>)  \* 购物车
    THEN "shopping_cart"
    ELSE "general"

\* self.orders_db: the key, the status, the total and the ids of the products
EcommerceAgent_orders_db ==
    << [id |-> <<111,48,48,49>>, status |-> <<24050,21457,36135>>, total |-> <<50,57,57,57>>, products |-> << <<112,48,48,49>> >>],  \* o001 | 已发货 | 2999 | p001
       [id |-> <<111,48,48,50>>, status |-> <<24453,20184,27454>>, total |-> <<49,52,57,57>>, products |-> << <<104,48,48,50>> >>],  \* o002 | 待付款 | 1499 | h002
       [id |-> <<111,48,48,51>>, status |-> <<24050,23436,25104>>, total |-> <<55,57,57,57>>, products |-> << <<108,48,48,50>> >>] >>  \* o003 | 已完成 | 7999 | l002

\* an exception that leaves a function that returns a str: the marker and
\* then str(e); no text starts with the marker
Raise(message) == <<-3>> \o message
IsRaise(value) == value # <<>> /\ value[1] = -3
Message(value) == Tail(value)

\* self.get_product_details(...): EcommerceAgent defines no such method
EcommerceAgent_get_product_details_error ==
    <<39,69,99,111,109,109,101,114,99,101,65,103,101,110,116,39,32,111,98,106,101,99,116,32,104,97,115,32,110,111,32,97,116,116,114,105,98,117,116,101,32,39,103,101,116,95,112,114,111,100,117,99,116,95,100,101,116,97,105,108,115,39>>  \* 'EcommerceAgent' object has no attribute 'get_product_details'

\* the sentence lines 242-247 add for the status
EcommerceAgent_status_note(status) ==
    IF status = <<24050,21457,36135>> THEN <<24744,30340,35746,21333,24050,21457,36135,65292,35831,32784,24515,31561,24453,36865,36798,12290>>  \* 已发货 | 您的订单已发货，请耐心等待送达。
    ELSE IF status = <<24453,20184,27454>> THEN <<35746,21333,23578,26410,25903,20184,65292,35831,21450,26102,23436,25104,20184,27454,12290>>  \* 待付款 | 订单尚未支付，请及时完成付款。
    ELSE IF status = <<24050,23436,25104>> THEN <<35746,21333,24050,23436,25104,65292,22914,26377,38382,39064,35831,32852,31995,23458,26381,12290>>  \* 已完成 | 订单已完成，如有问题请联系客服。
    ELSE <<>>

\* lines 225-249 for an order of the table: the first product of the order
\* is looked up with get_product_details, which raises AttributeError; an
\* order without products is formatted
EcommerceAgent_order_reply(order) ==
    IF order.products # <<>>
    THEN Raise(EcommerceAgent_get_product_details_error)
    ELSE <<10,35746,21333,21495,58,32>> \o order.id \o <<10,29366,24577,58,32>> \o order.status \o <<10,21830,21697,58,32>>  \* \n订单号:  | \n状态:  | \n商品: 
             \o <<10,24635,37329,39069,58,32,165>> \o order.total \o <<10,10>>  \* \n总金额: ¥ | \n\n
             \o EcommerceAgent_status_note(order.status)

\* a lookup that never names an id
EcommerceAgent_query_order_no_id(query) ==
    <<25265,27465,65292,27809,26377,25214,21040,35746,21333,21495,65292,35831,25552,20379,27491,30830,30340,35746,21333,21495,12290>>  \* 抱歉，没有找到订单号，请提供正确的订单号。

\* _query_order: re.search(r'[o]\d{3}', query) takes the leftmost match
EcommerceAgent_query_order(query) ==
    LET starts == {i \in 1..(Len(query) - 3) :
                      /\ query[i] = 111  \* o
                      /\ \A k \in 1..3 : query[i + k] \in Digits}
    IN IF starts = {}
       THEN <<25265,27465,65292,27809,26377,25214,21040,35746,21333,21495,65292,35831,25552,20379,27491,30830,30340,35746,21333,21495,12290>>  \* 抱歉，没有找到订单号，请提供正确的订单号。
       ELSE LET i == CHOOSE s \in starts : \A t \in starts : s <= t
                order_id == SubSeq(query, i, i + 3)
                found == {n \in 1..Len(EcommerceAgent_orders_db) :
                             EcommerceAgent_orders_db[n].id = order_id}
            IN IF found = {}
               THEN <<25265,27465,65292,26410,25214,21040,35746,21333,32>> \o order_id \o <<32,30340,20449,24687,12290>>  \* 抱歉，未找到订单  |  的信息。
               ELSE EcommerceAgent_order_reply(
                        EcommerceAgent_orders_db[CHOOSE n \in found : TRUE])

EcommerceAgent_use_qwen_model(user_input, history, env) ==
    LET q == qwen_model_generate(user_input, history, env.qwen)
    IN [frags |-> q.frags, calls |-> <<q.call>>, hist |-> q.passed]

EcommerceAgent_system_prompt ==
    [role |-> "system",
     content |-> <<20320,26159,19968,20010,19987,19994,30340,30005,21830,23458,26381,21161,25163,65292,25797,38271,35299,31572,36141,29289,12289,29289,27969,12289,21806,21518,31561,38382,39064,12290,35831,25552,20379,20934,30830,12289,19987,19994,30340,22238,31572,12290>>]  \* 你是一个专业的电商客服助手，擅长解答购物、物流、售后等问题。请提供准确、专业的回答。

EcommerceAgent_use_deepseek_model(user_input, history, env) ==
    LET messages == <<EcommerceAgent_system_prompt>> \o history
        d == deepseek_model_generate(user_input, messages, env.deepseek)
    IN [frags |-> d.frags, calls |-> <<d.call>>, hist |-> history]

EcommerceAgent_commerce_keywords ==
    << <<20215,26684>>, <<20248,24800>>, <<24211,23384>>, <<21457,36135>>, <<36864,27454>>, <<21830,21697>>, <<36141,29289>> >>  \* 价格 | 优惠 | 库存 | 发货 | 退款 | 商品 | 购物

EcommerceAgent_auto_select_model(user_input, history, env) ==
    IF ContainsAny(user_input, EcommerceAgent_commerce_keywords)
    THEN EcommerceAgent_use_qwen_model(user_input, history, env)
    ELSE EcommerceAgent_use_deepseek_model(user_input, history, env)

\* _general_ecommerce_response: the automatic strategy on the query with an
\* empty history, its stream collected into one str
EcommerceAgent_general_ecommerce_response(query, env) ==
    LET s == EcommerceAgent_auto_select_model(query, <<>>, env)
    IN [response |-> IF AllStr(s.frags)
                     THEN Join(s.frags)
                     ELSE <<25265,27465,65292,25105,26242,26102,26080,27861,22238,31572,24744,30340,38382,39064,12290,35831,31245,21518,20877,35797,25110,32852,31995,23458,26381,23547,27714,24110,21161,12290>>,  \* 抱歉，我暂时无法回答您的问题。请稍后再试或联系客服寻求帮助。
        calls |-> s.calls]

----------------------------------------------------------------------------
(* SentimentAgent and GovernmentAgent *)

SentimentAgent_positive_words ==
    << <<24320,24515>>, <<39640,20852>>, <<24555,20048>>, <<28385,24847>>, <<21916,27426>>, <<29233>>, <<24863,35874>>, <<35874,35874>>, <<22909>>, <<26834>>,  \* 开心 | 高兴 | 快乐 | 满意 | 喜欢 | 爱 | 感谢 | 谢谢 | 好 | 棒
       <<20248,31168>>, <<36190>>, <<21385,23475>>, <<19981,38169>>, <<21487,20197>>, <<34892>>, <<22909,30340>>, <<21999>>, <<26159,30340>>, <<23545>> >>  \* 优秀 | 赞 | 厉害 | 不错 | 可以 | 行 | 好的 | 嗯 | 是的 | 对

SentimentAgent_negative_words ==
    << <<19981,24320,24515>>, <<38590,36807>>, <<20260,24515>>, <<30171,33510>>, <<22833,26395>>, <<29983,27668>>, <<24868,24594>>, <<35752,21388>>, <<28902>>,  \* 不开心 | 难过 | 伤心 | 痛苦 | 失望 | 生气 | 愤怒 | 讨厌 | 烦
       <<19981,22909>>, <<24046>>, <<31967,31957>>, <<22351>>, <<19981,34892>>, <<19981,21487,20197>>, <<19981,33021>>, <<19981,35201>>, <<28378>>, <<31528>>, <<34850>> >>  \* 不好 | 差 | 糟糕 | 坏 | 不行 | 不可以 | 不能 | 不要 | 滚 | 笨 | 蠢

\* sum(1 for word in words if word in text)
CountIn(words, text) == Cardinality({n \in 1..Len(words) : Contains(text, words[n])})

SentimentAgent_analyze_sentiment(text) ==
    LET positive_score == CountIn(SentimentAgent_positive_words, text)
        negative_score == CountIn(SentimentAgent_negative_words, text)
    IN IF positive_score > negative_score THEN <<112,111,115,105,116,105,118,101>>  \* positive
       ELSE IF negative_score > positive_score THEN <<110,101,103,97,116,105,118,101>>  \* negative
       ELSE <<110,101,117,116,114,97,108>>  \* neutral

\* the keys of self.knowledge_base: each category with its subcategories
GovernmentAgent_knowledge_base ==
    << [category |-> <<35777,20214,21150,29702>>, subcategories |-> << <<36523,20221,35777>>, <<25252,29031>>, <<39550,39542,35777>> >>],  \* 证件办理 | 身份证 | 护照 | 驾驶证
       [category |-> <<31038,20250,20445,38556>>, subcategories |-> << <<21307,30103,20445,38505>>, <<20859,32769,20445,38505>>, <<22833,19994,20445,38505>> >>],  \* 社会保障 | 医疗保险 | 养老保险 | 失业保险
       [category |-> <<20303,25151,26381,21153>>, subcategories |-> << <<20844,31215,37329>>, <<20445,38556,25151>>, <<19981,21160,20135,30331,35760>> >>],  \* 住房服务 | 公积金 | 保障房 | 不动产登记
       [category |-> <<31246,21153,26381,21153>>, subcategories |-> << <<20010,20154,25152,24471,31246>>, <<22686,20540,31246>>, <<20225,19994,25152,24471,31246>> >>],  \* 税务服务 | 个人所得税 | 增值税 | 企业所得税
       [category |-> <<20986,34892,26381,21153>>, subcategories |-> << <<20132,36890,36829,31456>>, <<20844,20849,20132,36890>>, <<26426,21160,36710>> >>] >>  \* 出行服务 | 交通违章 | 公共交通 | 机动车

NoCategory == <<-4>>

GovernmentAgent_analyze_query(query, keywords) ==
    LET kb == GovernmentAgent_knowledge_base
        names(name) == Contains(query, name) \/ \E kw \in keywords : Contains(name, kw)
        direct == {n \in 1..Len(kb) : names(kb[n].category)}
        nested == {n \in 1..Len(kb) :
                      \E s \in 1..Len(kb[n].subcategories) : names(kb[n].subcategories[s])}
        first(S) == kb[CHOOSE n \in S : \A m \in S : n <= m].category
        service_category == IF direct # {} THEN first(direct)
                            ELSE IF nested # {} THEN first(nested)
                            ELSE NoCategory
    IN IF ContainsAny(query, << <<24590,20040,21150>>, <<22914,20309,21150,29702>>, <<27969,31243>>, <<27493,39588>> >>)  \* 怎么办 | 如何办理 | 流程 | 步骤
       THEN [query_type |-> "procedure_guide", service_category |-> service_category]
       ELSE IF ContainsAny(query, << <<22312,21738,37324>>, <<22320,28857>>, <<22320,22336>>, <<21738,20799>> >>)  \* 在哪里 | 地点 | 地址 | 哪儿
       THEN [query_type |-> "location_query", service_category |-> service_category]
       ELSE IF ContainsAny(query, << <<25919,31574>>, <<35268,23450>>, <<27861,35268>>, <<26465,20363>> >>)  \* 政策 | 规定 | 法规 | 条例
       THEN [query_type |-> "policy_query", service_category |-> service_category]
       ELSE IF service_category # NoCategory
       THEN [query_type |-> "service_info", service_category |-> service_category]
       ELSE [query_type |-> "general_query", service_category |-> NoCategory]

\* self.service_guides["身份证办理"]
GovernmentAgent_id_card_guide ==
    <<20146,29233,30340,24066,27665,26379,21451,65292,20851,20110,36523,20221,35777,21150,29702,65292,25105,26469,20026,24744,35814,32454,20171,32461,65306,10,10,12304,21150,29702,27969,31243,12305,10,49,46,32,20934,22791,26448,26009,10,32,32,32,45,32,25143,21475,26412,21407,20214,10,32,32,32,45,32,26087,36523,20221,35777,65288,22914,26377,65289,10,32,32,32,45,32,36817,26399,20813,20896,29031,29255,65288,20063,21487,29616,22330,25293,25668,65289,10,10,50,46,32,21150,29702,22320,28857,21644,26041,24335,10,32,32,32,45,32,23601,36817,36873,25321,25143,31821,25152,22312,22320,27966,20986,25152,25110,25143,31821,21150,29702,28857,10,32,32,32,45,32,24314,35758,25552,21069,36890,36807,20114,32852,32593,36827,34892,39044,32422,10,10,51,46,32,20855,20307,27493,39588,10,32,32,32,45,32,21040,36798,29616,22330,21518,20808,21462,21495,10,32,32,32,45,32,22635,20889,12298,23621,27665,36523,20221,35777,30003,39046,30331,35760,34920,12299,10,32,32,32,45,32,39564,35777,36523,20221,20449,24687,10,32,32,32,45,32,37319,38598,29031,29255,65288,22914,38656,65289,10,32,32,32,45,32,32564,32435,24037,26412,36153,65288,39318,27425,21150,29702,20813,36153,65289,10,10,52,46,32,39046,21462,26041,24335,10,32,32,32,45,32,19968,33324,49,53,45,51,48,22825,21046,20316,23436,25104,10,32,32,32,45,32,21487,36873,25321,29616,22330,39046,21462,25110,37038,23492,21040,23478,10,10,12304,28201,39336,25552,31034,12305,10,10022,32,39318,27425,30003,39046,20813,25910,24037,26412,36153,65292,20002,22833,34917,21150,38656,32564,36153,10,10022,32,29031,29255,21487,29616,22330,25293,25668,25110,33258,24102,65288,38656,31526,21512,35268,26684,35201,27714,65289,10,10022,32,24314,35758,36991,24320,24037,20316,26085,39640,23792,26102,27573,21150,29702,10,10022,32,21487,36890,36807,39,20840,22269,20844,23433,25919,21153,26381,21153,24179,21488,39,39044,32422,21150,29702,10,10022,32,32039,24613,24773,20917,21487,30003,35831,21152,24613,21150,29702,65288,21487,33021,38656,35201,39069,22806,36153,29992,65289,10,10,22914,26524,24744,22312,21150,29702,36807,31243,20013,36935,21040,20219,20309,38382,39064,65292,38543,26102,21487,20197,35810,38382,25105,65281>>  \* 亲爱的市民朋友，关于身份证办理，我来为您详细介绍：\n\n【办理流程】\n1. 准备材料\n   - 户口本原件\n   - 旧身份证（如有）\n   - 近期免冠照片（也可现场拍摄）\n\n2. 办理地点和方式\n   - 就近选择户籍所在地派出所或户籍办理点\n   - 建议提前通过互联网进行预约\n\n3. 具体步骤\n   - 到达现场后先取号\n   - 填写《居民身份证申领登记表》\n   - 验证身份信息\n   - 采集照片（如需）\n   - 缴纳工本费（首次办理免费）\n\n4. 领取方式\n   - 一般15-30天制作完成\n   - 可选择现场领取或邮寄到家\n\n【温馨提示】\n✦ 首次申领免收工本费，丢失补办需缴费\n✦ 照片可现场拍摄或自带（需符合规格要求）\n✦ 建议避开工作日高峰时段办理\n✦ 可通过'全国公安政务服务平台'预约办理\n✦ 紧急情况可申请加急办理（可能需要额外费用）\n\n如果您在办理过程中遇到任何问题，随时可以询问我！

\* the second definition of _build_prompt in the class, the one in effect;
\* keywords is the list in the order list(set(...)) gave it
GovernmentAgent_build_prompt(user_input, query_type, service_category, keywords) ==
    LET base == <<20316,20026,25919,21153,26381,21153,20154,21592,65292,35831,22238,31572,20197,19979,38382,39064,65306,10>> \o user_input \o <<10,10>>  \* 作为政务服务人员，请回答以下问题：\n | \n\n
        hint ==
            CASE query_type = "service_info" ->
                    IF service_category # NoCategory
                    THEN <<36825,26159,20851,20110>> \o service_category \o <<30340,21672,35810,65292,35831,25552,20379,30456,20851,26381,21153,20449,24687,12290,10>>  \* 这是关于 | 的咨询，请提供相关服务信息。\n
                             \o (IF keywords # <<>>
                                 THEN <<37325,28857,20851,27880,36825,20123,26041,38754,65306>> \o JoinWith(<<44,32>>, keywords)  \* 重点关注这些方面： | , 
                                          \o <<10>>  \* \n
                                 ELSE <<>>)
                    ELSE <<>>
              [] query_type = "procedure_guide" -> <<35831,35814,32454,35828,26126,21150,29702,27969,31243,21644,25152,38656,26448,26009,12290,10>>  \* 请详细说明办理流程和所需材料。\n
              [] query_type = "policy_query" -> <<35831,35299,37322,30456,20851,25919,31574,35268,23450,21644,35201,27714,12290,10>>  \* 请解释相关政策规定和要求。\n
              [] query_type = "location_query" -> <<35831,25552,20379,30456,20851,26381,21153,32593,28857,21644,21150,29702,22320,28857,20449,24687,12290,10>>  \* 请提供相关服务网点和办理地点信息。\n
              [] OTHER -> <<>>
    IN base \o hint \o <<10,35831,20197,19987,19994,12289,32784,24515,12289,21451,21892,30340,24577,24230,22238,31572,65292,30830,20445,20449,24687,20934,30830,23436,25972,12290>>  \* \n请以专业、耐心、友善的态度回答，确保信息准确完整。

GovernmentAgent_use_qwen_model(user_input, history, env) ==
    LET q == qwen_model_generate(user_input, history, env.qwen)
    IN [frags |-> q.frags, calls |-> <<q.call>>, hist |-> q.passed]

GovernmentAgent_use_deepseek_model(user_input, history, env) ==
    LET d == deepseek_model_generate(user_input, history, env.deepseek)
    IN [frags |-> d.frags, calls |-> <<d.call>>, hist |-> history]

GovernmentAgent_auto_select_model(user_input, history, env) ==
    IF Len(user_input) > AutoLengthThreshold
       \/ Contains(user_input, <<35814,32454>>) \/ Contains(user_input, <<35299,37322>>)  \* 详细 | 解释
    THEN GovernmentAgent_use_deepseek_model(user_input, history, env)
    ELSE GovernmentAgent_use_qwen_model(user_input, history, env)

GovernmentAgent_strategy(key, user_input, history, env) ==
    CASE key = <<81,119,101,110,50,46,53>> -> GovernmentAgent_use_qwen_model(user_input, history, env)  \* Qwen2.5
      [] key = <<68,101,101,112,83,101,101,107>> -> GovernmentAgent_use_deepseek_model(user_input, history, env)  \* DeepSeek
      [] key = <<28151,21512,27169,24335>> -> GovernmentAgent_use_hybrid_model(user_input, history, env)  \* 混合模式
      [] OTHER -> GovernmentAgent_auto_select_model(user_input, history, env)

\* the special case of lines 167-176: the identity-card guide is returned
\* without a model call
GovernmentAgent_is_id_card_query(user_input) ==
    /\ Contains(user_input, <<36523,20221,35777>>)  \* 身份证
    /\ ContainsAny(user_input, << <<21150,29702>>, <<26356,25442>>, <<25442>>, <<21040,26399>> >>)  \* 办理 | 更换 | 换 | 到期

\* the stream of the selected strategy (lines 178-189); env.keywords is the
\* keyword list in the order list(set(...)) gave it
GovernmentAgent_generate(user_input, context, env) ==
    LET a == GovernmentAgent_analyze_query(user_input, extract_keywords(user_input))
        prompt == GovernmentAgent_build_prompt(user_input, a.query_type,
                                               a.service_category, env.keywords)
    IN GovernmentAgent_strategy(StrategyKey(context.model_strategy), prompt,
                                ContextHistory(context), env)

GovernmentAgent_respond(s, sentiment) ==
    [frags |-> Chars(GovernmentAgent_adjust_response_tone(Join(s.frags), sentiment)),
     calls |-> s.calls,
     hist |-> s.hist]

\* GovernmentAgent.process: result["response"], a str, the model calls
\* made and the list of context["conversation_history"] after the call
GovernmentAgent_process(user_input, context, env) ==
    IF GovernmentAgent_is_id_card_query(user_input)
    THEN [frags |-> Chars(GovernmentAgent_adjust_response_tone(
                              GovernmentAgent_id_card_guide,
                              SentimentAgent_analyze_sentiment(user_input))),
          calls |-> <<>>,
          hist |-> ContextHistory(context)]
    ELSE GovernmentAgent_respond(GovernmentAgent_generate(user_input, context, env),
                                 SentimentAgent_analyze_sentiment(user_input))

----------------------------------------------------------------------------
(* EcommerceAgent._parse_price_range.  The result is the tuple returned,    *)
(* <<low, high>>, or NoRange for None.                                      *)

NoRange == <<>>

\* int(s) of a run of decimal digits of any script
RECURSIVE IntOf(_)
IntOf(s) ==
    IF s = <<>> THEN 0
    ELSE 10 * IntOf(SubSeq(s, 1, Len(s) - 1))
             + DigitValue(s[Len(s)])

\* the last position of the run of digits of text that starts at position
\* i, which is what \d+ consumes from i when a character that is no digit
\* has to follow
RECURSIVE RunEnd(_, _)
RunEnd(text, i) ==
    IF i + 1 <= Len(text) /\ text[i + 1] \in Digits THEN RunEnd(text, i + 1) ELSE i

\* the positions at which (\d+)元以?下 matches
EcommerceAgent_price_pattern(query) ==
    {i \in 1..Len(query) :
        /\ query[i] \in Digits
        /\ \/ OccursAt(<<20803,19979>>, query, RunEnd(query, i))  \* 元下
           \/ OccursAt(<<20803,20197,19979>>, query, RunEnd(query, i))}  \* 元以下

RangeSeparators == { 45,126,21040,33267 }  \* -~到至

\* the positions at which (\d+)[-~到至](\d+)元 matches
EcommerceAgent_range_pattern(query) ==
    {i \in 1..Len(query) :
        /\ query[i] \in Digits
        /\ RunEnd(query, i) + 2 <= Len(query)
        /\ query[RunEnd(query, i) + 1] \in RangeSeparators
        /\ query[RunEnd(query, i) + 2] \in Digits
        /\ OccursAt(<<20803>>, query, RunEnd(query, RunEnd(query, i) + 2))}  \* 元

Leftmost(positions) == CHOOSE i \in positions : \A j \in positions : i <= j

\* the digits \d+ captures at position i
Group(query, i) == SubSeq(query, i, RunEnd(query, i))

\* _parse_price_range: the first pattern is searched first
EcommerceAgent_parse_price_range(query) ==
    IF EcommerceAgent_price_pattern(query) # {}
    THEN <<0, IntOf(Group(query, Leftmost(EcommerceAgent_price_pattern(query))))>>
    ELSE IF EcommerceAgent_range_pattern(query) # {}
    THEN << IntOf(Group(query, Leftmost(EcommerceAgent_range_pattern(query)))),
            IntOf(Group(query, RunEnd(query, Leftmost(EcommerceAgent_range_pattern(query))) + 2)) >>
    ELSE NoRange

----------------------------------------------------------------------------
(* Function-level study of _parse_price_range: a query is a prefix, a price *)
(* phrase (or a phrase without a price) and a suffix.                       *)

\* amounts as written and their values
Amounts ==
    { [text |-> <<48>>, value |-> 0], [text |-> <<53>>, value |-> 5],  \* 0 | 5
      [text |-> <<48,48,55>>, value |-> 7], [text |-> <<49,48,48,48>>, value |-> 1000],  \* 007 | 1000
      [text |-> <<50,48,48,48>>, value |-> 2000], [text |-> <<51,48,48,48>>, value |-> 3000] }  \* 2000 | 3000

NoAmount == [text |-> <<>>, value |-> 0]

\* "p元以下"
UnderPhrases ==
    {[kind |-> "under", a |-> NoAmount, b |-> p, text |-> p.text \o <<20803,20197,19979>>] :  \* 元以下
        p \in Amounts}

\* "a到b元"
RangePhrases ==
    {[kind |-> "range", a |-> c[1], b |-> c[2], text |-> c[1].text \o <<21040>> \o c[2].text \o <<20803>>] :  \* 到 | 元
        c \in {d \in Amounts \X Amounts : d[1].value \in {5, 1000, 3000} /\ d[2].value \in {5, 1000, 3000}}}

\* phrases without a number
PlainPhrases ==
    {[kind |-> "none", a |-> NoAmount, b |-> NoAmount, text |-> t] :
        t \in { <<25163,26426,25512,33616>>, <<20415,23452,30340>>, <<20803,20197,19979>>, <<>> }}  \* 手机推荐 | 便宜的 | 元以下

PricePrefixes == { <<>>, <<24819,20080>>, <<25512,33616,32>> }  \* 想买 | 推荐 
PriceSuffixes == { <<>>, <<30340,25163,26426>>, <<19979,21333>> }  \* 的手机 | 下单

PriceProbes ==
    [prefix : PricePrefixes, phrase : UnderPhrases \cup RangePhrases \cup PlainPhrases,
     suffix : PriceSuffixes]

PriceQuery(p) == p.prefix \o p.phrase.text \o p.suffix

InitPrice ==
    /\ DispatcherInit
    /\ probe \in PriceProbes
    /\ result = Pending

ParsePrice ==
    /\ ~Applied
    /\ result' = <<EcommerceAgent_parse_price_range(PriceQuery(probe))>>
    /\ UNCHANGED probe
    /\ DispatcherIdle

SpecPrice == InitPrice /\ [][ParsePrice]_vars

\* C16: _parse_price_range returns (0, p) for a text whose price phrase is
\* "p元以下", (a, b) for a text whose price phrase is the range "a到b元", and
\* None for a text without a numeric price phrase.
C16_PriceRangeParsed ==
    Applied =>
        /\ probe.phrase.kind = "under" => Value = <<0, probe.phrase.b.value>>
        /\ probe.phrase.kind = "range"
               => Value = <<probe.phrase.a.value, probe.phrase.b.value>>
        /\ probe.phrase.kind = "none" => Value = NoRange
----------------------------------------------------------------------------
(* Python floats are IEEE-754 binary64 numbers and every operation on them  *)
(* returns the double nearest to the exact result, ties to the even         *)
(* significand.  A natural number is its sequence of digits in base 2^15,  *)
(* lowest digit first, without leading zeros; a float that is not negative  *)
(* is the record [m, e] of value m * 2^e with 2^52 <= m < 2^53, or m zero.  *)
(* The scores of the catalog are far from the subnormal numbers, from the   *)
(* infinities and from the negative numbers.                                *)

Base == 2 ^ 15

Smaller(a, b) == IF a < b THEN a ELSE b

Digit(a, i) == IF i <= Len(a) THEN a[i] ELSE 0

RECURSIVE Trim(_)
Trim(a) == IF a # <<>> /\ a[Len(a)] = 0 THEN Trim(SubSeq(a, 1, Len(a) - 1)) ELSE a

RECURSIVE Natural(_)
Natural(n) == IF n = 0 THEN <<>> ELSE <<n % Base>> \o Natural(n \div Base)

RECURSIVE Number(_)
Number(a) == IF a = <<>> THEN 0 ELSE a[1] + Base * Number(Tail(a))

RECURSIVE PlusFrom(_, _, _, _)
PlusFrom(a, b, i, carry) ==
    IF i > Len(a) /\ i > Len(b) THEN (IF carry = 0 THEN <<>> ELSE <<carry>>)
    ELSE <<(Digit(a, i) + Digit(b, i) + carry) % Base>>
             \o PlusFrom(a, b, i + 1, (Digit(a, i) + Digit(b, i) + carry) \div Base)

Plus(a, b) == PlusFrom(a, b, 1, 0)

\* a - b for a >= b
RECURSIVE MinusFrom(_, _, _, _)
MinusFrom(a, b, i, borrow) ==
    IF i > Len(a) THEN <<>>
    ELSE IF a[i] - Digit(b, i) - borrow < 0
         THEN <<a[i] - Digit(b, i) - borrow + Base>> \o MinusFrom(a, b, i + 1, 1)
         ELSE <<a[i] - Digit(b, i) - borrow>> \o MinusFrom(a, b, i + 1, 0)

Minus(a, b) == Trim(MinusFrom(a, b, 1, 0))

RECURSIVE LessFrom(_, _, _)
LessFrom(a, b, i) ==
    IF i = 0 THEN FALSE
    ELSE IF a[i] # b[i] THEN a[i] < b[i]
    ELSE LessFrom(a, b, i - 1)

Less(a, b) == IF Len(a) # Len(b) THEN Len(a) < Len(b) ELSE LessFrom(a, b, Len(a))

\* a * k for a digit k
RECURSIVE TimesDigitFrom(_, _, _, _)
TimesDigitFrom(a, k, i, carry) ==
    IF i > Len(a) THEN (IF carry = 0 THEN <<>> ELSE <<carry>>)
    ELSE <<(a[i] * k + carry) % Base>>
             \o TimesDigitFrom(a, k, i + 1, (a[i] * k + carry) \div Base)

TimesDigit(a, k) == IF k = 0 THEN <<>> ELSE TimesDigitFrom(a, k, 1, 0)

Zeros(n) == [i \in 1..n |-> 0]

RECURSIVE TimesFrom(_, _, _)
TimesFrom(a, b, i) ==
    IF i > Len(b) THEN <<>>
    ELSE Plus(IF b[i] = 0 THEN <<>> ELSE Zeros(i - 1) \o TimesDigit(a, b[i]),
              TimesFrom(a, b, i + 1))

Times(a, b) == TimesFrom(a, b, 1)

RECURSIVE DigitBits(_)
DigitBits(d) == IF d = 0 THEN 0 ELSE 1 + DigitBits(d \div 2)

\* the number of binary digits of a
BitLength(a) == IF a = <<>> THEN 0 ELSE 15 * (Len(a) - 1) + DigitBits(a[Len(a)])

\* a * 2^n
ShiftLeft(a, n) == IF a = <<>> THEN <<>> ELSE Zeros(n \div 15) \o TimesDigit(a, 2 ^ (n % 15))

\* a \div 2^n
ShiftRight(a, n) ==
    Trim([i \in 1..(Len(a) - n \div 15) |->
             Digit(a, i + n \div 15) \div 2 ^ (n % 15)
                 + (Digit(a, i + n \div 15 + 1) % 2 ^ (n % 15)) * 2 ^ (15 - (n % 15))])

\* a % 2^n
LowBits(a, n) ==
    Trim([i \in 1..(n \div 15 + 1) |->
             IF i <= n \div 15 THEN Digit(a, i) ELSE Digit(a, i) % 2 ^ (n % 15)])

\* the largest digit k <= guess with d * k <= r
RECURSIVE Fit(_, _, _)
Fit(r, d, guess) == IF Less(r, TimesDigit(d, guess)) THEN Fit(r, d, guess - 1) ELSE guess

\* r \div d for r < d * Base, by long division: the first two digits of r
\* divided by the first digit of d are not less than the quotient
QuotientDigit(r, d) ==
    IF Len(r) < Len(d) THEN 0
    ELSE Fit(r, d, Smaller(Base - 1, (Digit(r, Len(d) + 1) * Base + r[Len(d)]) \div d[Len(d)]))

\* one step of the long division of n by d: the digit i of n is brought
\* down to the rest r, and the quotient digit extends q
DivisionStep(n, d, i, r, q) ==
    [i |-> i - 1, r |-> Minus(r, TimesDigit(d, QuotientDigit(r, d))),
     q |-> <<QuotientDigit(r, d)>> \o q]

RECURSIVE LongDivision(_, _, _)
LongDivision(n, d, s) ==
    IF s.i = 0 THEN [q |-> Trim(s.q), rest |-> s.r # <<>>]
    ELSE LongDivision(n, d, DivisionStep(n, d, s.i, Trim(<<n[s.i]>> \o s.r), s.q))

\* n \div d and whether n % d is not zero
Quotient(n, d) == LongDivision(n, d, [i |-> Len(n), r |-> <<>>, q |-> <<>>])

Zero == [m |-> <<>>, e |-> 0]

\* the significand rounded up may reach 2^53
Carried(m, e) == IF BitLength(m) = 54 THEN [m |-> ShiftRight(m, 1), e |-> e + 1] ELSE [m |-> m, e |-> e]

\* the first 53 binary digits of q, plus one when the digits cut off (with
\* anything that follows q when rest holds) are more than half a unit, or
\* exactly half and the significand is odd
Nearest(q, cut, rest, e) ==
    IF Less(ShiftLeft(<<1>>, cut - 1), LowBits(q, cut))
       \/ /\ LowBits(q, cut) = ShiftLeft(<<1>>, cut - 1)
          /\ (rest \/ (Digit(q, cut \div 15 + 1) \div 2 ^ (cut % 15)) % 2 = 1)
    THEN Carried(Plus(ShiftRight(q, cut), <<1>>), e + cut)
    ELSE [m |-> ShiftRight(q, cut), e |-> e + cut]

\* n / 2^cut rounded to the nearest natural number, to the even one of two
HalfEven(n, cut) ==
    IF cut = 0 THEN n
    ELSE IF Less(ShiftLeft(<<1>>, cut - 1), LowBits(n, cut))
            \/ /\ LowBits(n, cut) = ShiftLeft(<<1>>, cut - 1)
               /\ (Digit(n, cut \div 15 + 1) \div 2 ^ (cut % 15)) % 2 = 1
    THEN Plus(ShiftRight(n, cut), <<1>>)
    ELSE ShiftRight(n, cut)

\* int(x) of a float x >= 0
Truncated(x) == Number(IF x.e < 0 THEN ShiftRight(x.m, -x.e) ELSE ShiftLeft(x.m, x.e))

\* the double nearest to q * 2^e, or to a number between q * 2^e and
\* (q + 1) * 2^e when rest holds (q has then more than 53 binary digits)
Round(q, rest, e) ==
    IF q = <<>> THEN Zero
    ELSE IF BitLength(q) <= 53 THEN [m |-> ShiftLeft(q, 53 - BitLength(q)), e |-> e - (53 - BitLength(q))]
    ELSE Nearest(q, BitLength(q) - 53, rest, e)

\* float(n) of an int n >= 0
Float(n) == Round(Natural(n), FALSE, 0)

Rounded(quotient, e) == Round(quotient.q, quotient.rest, e)

\* x / y
FloatDiv(x, y) ==
    IF x.m = <<>> THEN Zero
    ELSE Rounded(Quotient(ShiftLeft(x.m, 62), ShiftLeft(y.m, 7)), x.e - y.e - 55)

\* x * y
FloatMul(x, y) ==
    IF x.m = <<>> \/ y.m = <<>> THEN Zero
    ELSE Round(Times(x.m, y.m), FALSE, x.e + y.e)

\* x + y
FloatAdd(x, y) ==
    IF x.m = <<>> THEN y
    ELSE IF y.m = <<>> THEN x
    ELSE Round(Plus(ShiftLeft(x.m, x.e - Smaller(x.e, y.e)),
                    ShiftLeft(y.m, y.e - Smaller(x.e, y.e))), FALSE, Smaller(x.e, y.e))

\* x < y
FloatLess(x, y) ==
    IF y.m = <<>> THEN FALSE
    ELSE IF x.m = <<>> THEN TRUE
    ELSE IF x.e # y.e THEN x.e < y.e
    ELSE Less(x.m, y.m)

\* x - y for x >= y
FloatSub(x, y) ==
    IF y.m = <<>> THEN x
    ELSE Round(Minus(ShiftLeft(x.m, x.e - Smaller(x.e, y.e)),
                     ShiftLeft(y.m, y.e - Smaller(x.e, y.e))), FALSE, Smaller(x.e, y.e))

\* a literal with one decimal, given in tenths, and a/b for ints
Tenths(n) == FloatDiv(Float(n), Float(10))


----------------------------------------------------------------------------
(* EcommerceAgent._search_products: the value-score ranking of the phone    *)
(* catalog.  A product is its id, its price, its rating in tenths of a star *)
(* and its stock.  Scores are the floats the code computes.                 *)

Max(S) == CHOOSE x \in S : \A y \in S : y <= x
Min(S) == CHOOSE x \in S : \A y \in S : x <= y

Prices(products) == {products[n].price : n \in 1..Len(products)}

\* the float literals and the ints made floats of lines 417-438
One == Float(1)
Five == Float(5)
Hundred == Float(100)
Thousand == Float(1000)
brand_score == Tenths(8)
weight == [price |-> Tenths(3), rating |-> Tenths(2), brand |-> Tenths(2), stock |-> Tenths(1), price_per_rating |-> Tenths(2)]

\* 1 - (price - min_price) / (max_price - min_price), or the int 1
PriceScore(product, products) ==
    IF Max(Prices(products)) # Min(Prices(products))
    THEN FloatSub(One, FloatDiv(Float(product.price - Min(Prices(products))),
                                Float(Max(Prices(products)) - Min(Prices(products)))))
    ELSE One

\* product["rating"] / 5.0
RatingScore(product) == FloatDiv(Tenths(product.rating), Five)

\* min(product["stock"] / 100, 1.0)
StockScore(product) ==
    IF FloatLess(One, FloatDiv(Float(product.stock), Hundred)) THEN One
    ELSE FloatDiv(Float(product.stock), Hundred)

\* rating_score / (product["price"] / 1000)
PricePerRating(product) ==
    FloatDiv(RatingScore(product), FloatDiv(Float(product.price), Thousand))

\* the dict value_metrics of lines 433-439, in the order of its keys
ValueMetrics(product, products) ==
    << [score |-> PriceScore(product, products), weight |-> weight.price],
       [score |-> RatingScore(product), weight |-> weight.rating],
       [score |-> brand_score, weight |-> weight.brand],
       [score |-> StockScore(product), weight |-> weight.stock],
       [score |-> PricePerRating(product), weight |-> weight.price_per_rating] >>

\* sum(...) of floats: the additions from left to right, starting from 0
RECURSIVE Total(_, _)
Total(metrics, n) ==
    IF n = 0 THEN Zero
    ELSE FloatAdd(Total(metrics, n - 1), FloatMul(metrics[n].score, metrics[n].weight))

ValueScore(product, products) == Total(ValueMetrics(product, products), 5)

\* x["value_score"] of p > x["value_score"] of q, the key of the sort
ScoresAbove(p, q) == FloatLess(q.value_score[1], p.value_score[1])

ScoresEqual(p, q) == p.value_score[1] = q.value_score[1]

\* the number of products that products.sort(key=value_score, reverse=True)
\* puts before the product at position n: those with a higher score, and
\* those with an equal score that stand before it (the sort is stable)
SortRank(products, n) ==
    Cardinality({m \in 1..Len(products) :
                    \/ ScoresAbove(products[m], products[n])
                    \/ m < n /\ ScoresEqual(products[m], products[n])})

\* a sort that puts equal scores in reverse order
sort_by_value_score_unstable(products) ==
    [k \in 1..Len(products) |->
        products[CHOOSE n \in 1..Len(products) :
                    Cardinality({m \in 1..Len(products) :
                        \/ ScoresAbove(products[m], products[n])
                        \/ m > n /\ ScoresEqual(products[m], products[n])})
                      = k - 1]]

\* products.sort(key=lambda x: x["value_score"], reverse=True)
sort_by_value_score(products) ==
    [k \in 1..Len(products) |->
        products[CHOOSE n \in 1..Len(products) : SortRank(products, n) = k - 1]]

\* the loop of lines 417-442: product["value_score"] is stored in every
\* dict of the list
set_value_scores(products) ==
    [n \in 1..Len(products) |->
        [products[n] EXCEPT !.value_score = <<ValueScore(products[n], products)>>]]

\* the ids in the order of the report
ReportOrder(products) == [k \in 1..Len(products) |-> products[k].id]


----------------------------------------------------------------------------
(* EcommerceAgent._analyze_query: the query type and the product category   *)

\* the keys of self.products_db
EcommerceAgent_categories == { <<25163,26426>>, <<31508,35760,26412,30005,33041>>, <<32819,26426>>, <<24179,26495,30005,33041>> }  \* 手机 | 笔记本电脑 | 耳机 | 平板电脑

\* the first keyword that is a key of self.products_db (lines 179-183)
EcommerceAgent_first_category(keywords) ==
    IF \E n \in 1..Len(keywords) : keywords[n] \in EcommerceAgent_categories
    THEN keywords[CHOOSE n \in 1..Len(keywords) :
                      /\ keywords[n] \in EcommerceAgent_categories
                      /\ \A m \in 1..(n - 1) : keywords[m] \notin EcommerceAgent_categories]
    ELSE NoCategory

\* _analyze_query(query, keywords): an order query returns before the
\* category is looked for
EcommerceAgent_analyze_query_pair(query, keywords) ==
    [query_type |-> EcommerceAgent_analyze_query(query),
     category |-> IF EcommerceAgent_analyze_query(query) = "order_query"
                  THEN NoCategory
                  ELSE EcommerceAgent_first_category(keywords)]

AnalyzeQueries ==
    {a \o b \o c \o d :
        a \in { <<>>, <<25512,33616>>, <<26377,20160,20040,22909>>, <<21738,20010,22909,30340>> },  \* 推荐 | 有什么好 | 哪个好的
        b \in { <<>>, <<50,48,48,48,20803,20197,19979,30340>>, <<105,112,104,111,110,101>>, <<79,80,80,79>> },  \* 2000元以下的 | iphone | OPPO
        c \in { <<>>, <<25163,26426>>, <<32819,26426>>, <<31508,35760,26412,30005,33041>> },  \* 手机 | 耳机 | 笔记本电脑
        d \in { <<>>, <<35746,21333>>, <<24110,25105,25214>> }}  \* 订单 | 帮我找

AnalyzeKeywords ==
    { <<>>, << <<25163,26426>> >>, << <<25163,26426>>, <<50,48,48,48>>, <<25512,33616>> >>, << <<25512,33616>>, <<32819,26426>> >>,  \* 手机 | 手机 | 2000 | 推荐 | 推荐 | 耳机
      << <<32819,26426>>, <<25163,26426>> >>, << <<25512,33616>>, <<50,48,48,48>> >> }  \* 耳机 | 手机 | 推荐 | 2000

InitAnalyze ==
    /\ DispatcherInit
    /\ probe \in [query : AnalyzeQueries, keywords : AnalyzeKeywords]
    /\ result = Pending

AnalyzeQuery ==
    /\ ~Applied
    /\ result' = <<EcommerceAgent_analyze_query_pair(probe.query, probe.keywords)>>
    /\ UNCHANGED probe
    /\ DispatcherIdle

SpecAnalyze == InitAnalyze /\ [][AnalyzeQuery]_vars

\* C19: for a query that contains a recommendation phrase and none of the
\* order words 订单, 物流, 发货, with a keyword list that contains a catalog
\* category, _analyze_query returns ("product_recommendation", category),
\* the category being the keyword of the list that is one.
C19_RecommendationWithCategory ==
    (/\ Applied
     /\ ContainsAny(probe.query, << <<25512,33616>>, <<26377,20160,20040,22909>>, <<21738,20010,22909>> >>)  \* 推荐 | 有什么好 | 哪个好
     /\ ~ContainsAny(probe.query, << <<35746,21333>>, <<29289,27969>>, <<21457,36135>> >>)  \* 订单 | 物流 | 发货
     /\ \E n \in 1..Len(probe.keywords) : probe.keywords[n] \in EcommerceAgent_categories)
        => /\ Value.query_type = "product_recommendation"
           /\ Value.category \in EcommerceAgent_categories
           /\ \E n \in 1..Len(probe.keywords) : probe.keywords[n] = Value.category
----------------------------------------------------------------------------
(* EcommerceAgent: the answers made from the product catalog, which is the  *)
(* agent's attribute products_db: _search_products("手机", ...) stores the  *)
(* value scores in its dicts and sorts its list in place.                   *)

\* the list of the category in the catalog db, [] for a category that is no key
ProductsOf(db, category) ==
    IF \E n \in 1..Len(db) : db[n].category = category
    THEN db[CHOOSE n \in 1..Len(db) : db[n].category = category].products
    ELSE <<>>

\* self.products_db.get(category, [])
EcommerceAgent_products(category) == ProductsOf(products_db, category)

\* str() of a rating: a float with one decimal
RatingText(rating) == Decimal(rating \div 10) \o <<46>> \o Decimal(rating % 10)  \* .

\* f"{value_score:.2f}": the hundredth nearest to the float, the even one
\* of two that are as near
FormatScore(score) ==
    LET hundredths == Number(HalfEven(TimesDigit(score.m, 100), -score.e))
    IN Decimal(hundredths \div 100) \o <<46>>  \* .
           \o Decimal((hundredths \div 10) % 10) \o Decimal(hundredths % 10)

\* [p for p in products if price_range[0] <= p["price"] <= price_range[1]]
RECURSIVE InPriceRange(_, _)
InPriceRange(products, price_range) ==
    IF products = <<>> THEN <<>>
    ELSE (IF price_range[1] <= Head(products).price /\ Head(products).price <= price_range[2]
          THEN <<Head(products)>> ELSE <<>>)
             \o InPriceRange(Tail(products), price_range)

\* the report of lines 448-455 on the sorted list
EcommerceAgent_value_report(category, products) ==
    <<20026,24744,25214,21040>> \o Decimal(Len(products)) \o <<27454>> \o category  \* 为您找到 | 款
        \o <<65292,25353,24615,20215,27604,20174,39640,21040,20302,25490,24207,65306,10,10>>  \* ，按性价比从高到低排序：\n\n
        \o Join([i \in 1..Len(products) |->
                   Decimal(i) \o <<46,32>> \o products[i].name  \* . 
                       \o <<32,40>> \o products[i].brand \o <<41,10>>  \*  ( | )\n
                       \o <<32,32,32,20215,26684,65306,165>> \o Decimal(products[i].price) \o <<10>>  \*    价格：¥ | \n
                       \o <<32,32,32,35780,20998,65306>> \o RatingText(products[i].rating) \o <<26143,10>>  \*    评分： | 星\n
                       \o <<32,32,32,24211,23384,65306>> \o Decimal(products[i].stock) \o <<20214,10>>  \*    库存： | 件\n
                       \o <<32,32,32,24615,20215,27604,25351,25968,65306>>  \*    性价比指数：
                       \o FormatScore(products[i].value_score[1]) \o <<10>>  \* \n
                       \o <<32,32,32,45,45,45,45,45,45,45,45,45,45,45,45,45,10>>])  \*    -------------\n

\* the list of lines 467-473
EcommerceAgent_product_list(category, products) ==
    <<20026,24744,25214,21040,20197,19979>> \o category \o <<65306,10,10>>  \* 为您找到以下 | ：\n\n
        \o Join([i \in 1..Len(products) |->
                   <<45,32>> \o products[i].name \o <<10>>  \* -  | \n
                       \o <<32,32,21697,29260,65306>> \o products[i].brand \o <<10>>  \*   品牌： | \n
                       \o <<32,32,20215,26684,65306,165>> \o Decimal(products[i].price) \o <<10>>  \*   价格：¥ | \n
                       \o <<32,32,35780,20998,65306>> \o RatingText(products[i].rating) \o <<10>>  \*   评分： | \n
                       \o <<32,32,24211,23384,65306>> \o Decimal(products[i].stock) \o <<10,10>>])  \*   库存： | \n\n

\* the catalog after lines 417-445 have run on the list of the category:
\* the list is the catalog's own, so that its dicts hold the value scores
\* and it is sorted
EcommerceAgent_ranked_db(category) ==
    [n \in 1..Len(products_db) |->
        IF products_db[n].category = category
        THEN [products_db[n] EXCEPT
                 !.products = sort_by_value_score(set_value_scores(products_db[n].products))]
        ELSE products_db[n]]

\* what _search_products answers for a category other than 手机: the price
\* filter builds a new list
EcommerceAgent_filtered_list(category, keywords) ==
    LET price_range == EcommerceAgent_parse_price_range(JoinWith(<<32>>, keywords))  \*  
        products == IF price_range # NoRange
                    THEN InPriceRange(EcommerceAgent_products(category), price_range)
                    ELSE EcommerceAgent_products(category)
    IN IF products = <<>>
       THEN <<25265,27465,65292,27809,26377,25214,21040,31526,21512,26465,20214,30340>> \o category \o <<12290>>  \* 抱歉，没有找到符合条件的 | 。
       ELSE EcommerceAgent_product_list(category, products)

\* _search_products(category, keywords); category is NoCategory for None.
\* The result is the str returned and self.products_db after the call
EcommerceAgent_search_products(category, keywords) ==
    IF category = NoCategory \/ category = <<>>
    THEN [response |-> <<35831,21578,35785,25105,24744,24819,25628,32034,21738,31867,21830,21697,65311,25105,20204,26377,25163,26426,12289,31508,35760,26412,30005,33041,12289,32819,26426,21644,24179,26495,30005,33041,31561,31867,21035,12290>>,  \* 请告诉我您想搜索哪类商品？我们有手机、笔记本电脑、耳机和平板电脑等类别。
          products_db |-> products_db]
    ELSE IF EcommerceAgent_products(category) = <<>>
    THEN [response |-> <<25265,27465,65292,26410,25214,21040>> \o category \o <<31867,21035,30340,21830,21697,12290>>,  \* 抱歉，未找到 | 类别的商品。
          products_db |-> products_db]
    ELSE IF category = <<25163,26426>>  \* 手机
    THEN [response |-> EcommerceAgent_value_report(
                           category, ProductsOf(EcommerceAgent_ranked_db(category), category)),
          products_db |-> EcommerceAgent_ranked_db(category)]
    ELSE [response |-> EcommerceAgent_filtered_list(category, keywords),
          products_db |-> products_db]

\* _get_product_category(product_id)
EcommerceAgent_get_product_category(product_id) ==
    LET db == products_db
        holds(n) == \E k \in 1..Len(db[n].products) : db[n].products[k].id = product_id
    IN IF \E n \in 1..Len(db) : holds(n)
       THEN db[CHOOSE n \in 1..Len(db) : holds(n) /\ \A m \in 1..(n - 1) : ~holds(m)].category
       ELSE NoCategory

RECURSIVE Sum(_)
Sum(s) == IF s = <<>> THEN 0 ELSE Head(s) + Sum(Tail(s))

\* sum(prices) / len(prices) of the category's products
AveragePrice(category_products) ==
    FloatDiv(Float(Sum([n \in 1..Len(category_products) |-> category_products[n].price])),
             Float(Len(category_products)))

\* the feature of the price against avg_price (lines 585-594)
PriceFeature(price, avg_price) ==
    IF ~FloatLess(price, FloatMul(avg_price, Tenths(15))) THEN << <<39640,31471,23450,20301>> >>  \* 高端定位
    ELSE IF ~FloatLess(FloatMul(avg_price, Tenths(7)), price) THEN << <<24615,20215,27604,39640>> >>  \* 性价比高
    ELSE IF FloatLess(FloatMul(avg_price, Tenths(7)), price)
            /\ FloatLess(price, FloatMul(avg_price, Tenths(12))) THEN << <<20027,27969,20215,20301>> >>  \* 主流价位
    ELSE <<>>

\* _get_product_features(product)
EcommerceAgent_get_product_features(product) ==
    LET category == EcommerceAgent_get_product_category(product.id)
        category_products == EcommerceAgent_products(category)
        by_rating ==
            IF product.rating >= 47 THEN << <<22909,35780,22914,28526>> >>  \* 好评如潮
            ELSE IF product.rating >= 45 THEN << <<22909,35780,20248,36873>> >>  \* 好评优选
            ELSE IF product.rating >= 43 THEN << <<29992,25143,35748,21487>> >>  \* 用户认可
            ELSE <<>>
        by_price ==
            IF category_products = <<>> THEN <<>>
            ELSE PriceFeature(Float(product.price), AveragePrice(category_products))
        by_stock ==
            IF product.stock > 200 THEN << <<24211,23384,20805,36275>> >>  \* 库存充足
            ELSE IF 50 < product.stock /\ product.stock <= 200 THEN << <<29616,36135,22312,21806>> >>  \* 现货在售
            ELSE IF 20 < product.stock /\ product.stock <= 50 THEN << <<24211,23384,32039,24352>> >>  \* 库存紧张
            ELSE << <<21363,23558,21806,32580>> >>  \* 即将售罄
        by_brand ==
            IF product.brand = <<21697,29260,88>> THEN << <<31185,25216,39046,20808>> >>  \* 品牌X | 科技领先
            ELSE IF product.brand = <<21697,29260,89>> THEN << <<21697,36136,20445,35777>> >>  \* 品牌Y | 品质保证
            ELSE IF product.brand = <<21697,29260,90>> THEN << <<39640,24615,20215,27604>> >>  \* 品牌Z | 高性价比
            ELSE <<>>
        by_category ==
            IF category = <<25163,26426>> THEN << <<26234,33021,35774,22791>> >>  \* 手机 | 智能设备
            ELSE IF category = <<31508,35760,26412,30005,33041>> THEN << <<21150,20844,23089,20048>> >>  \* 笔记本电脑 | 办公娱乐
            ELSE IF category = <<32819,26426>> THEN << <<38899,39057,35774,22791>> >>  \* 耳机 | 音频设备
            ELSE IF category = <<24179,26495,30005,33041>> THEN << <<20415,25658,21150,20844>> >>  \* 平板电脑 | 便携办公
            ELSE <<>>
    IN JoinWith(<<12289>>, by_rating \o by_price \o by_stock \o by_brand \o by_category)  \* 、

\* the number of products that sorted(products, key=..., reverse=True) puts
\* before the product at position n: the key is the rating, or (rating,
\* -price) when by_price; products of equal keys keep their order
RecommendRank(products, n, by_price) ==
    Cardinality({m \in 1..Len(products) :
        \/ products[m].rating > products[n].rating
        \/ /\ products[m].rating = products[n].rating
           /\ \/ by_price /\ products[m].price < products[n].price
              \/ (by_price => products[m].price = products[n].price) /\ m < n})

sorted_by_rating(products, by_price) ==
    [k \in 1..Len(products) |->
        products[CHOOSE n \in 1..Len(products) : RecommendRank(products, n, by_price) = k - 1]]

\* the first key of self.products_db that occurs in the query, or the
\* category passed (lines 486-489)
EcommerceAgent_recommend_category(category, query) ==
    LET db == products_db
        named == {n \in 1..Len(db) : Contains(query, db[n].category)}
    IN IF named = {} THEN category
       ELSE db[CHOOSE n \in named : \A m \in named : n <= m].category

\* the lines of one recommended product (lines 520-535)
EcommerceAgent_recommend_item(product, is_promotion_query) ==
    <<9654,32>> \o product.name \o <<10>>  \* ▶  | \n
        \o <<32,32,45,32,21697,29260,65306>> \o product.brand \o <<10>>  \*   - 品牌： | \n
        \o <<32,32,45,32,20215,26684,65306,165>> \o Decimal(product.price)  \*   - 价格：¥
        \o (IF ~is_promotion_query THEN <<>>
            ELSE IF product.price >= 1000
            THEN <<32,40,38480,26102,20248,24800,65306,31435,20943,165>>  \*  (限时优惠：立减¥
                     \o Decimal(Truncated(FloatMul(Float(product.price), Tenths(1)))) \o <<41>>  \* )
            ELSE <<32,40,38480,26102,57,25240,20248,24800,41>>)  \*  (限时9折优惠)
        \o <<10>>  \* \n
        \o <<32,32,45,32,35780,20998,65306>> \o RatingText(product.rating) \o <<20998,10>>  \*   - 评分： | 分\n
        \o <<32,32,45,32,24211,23384,65306>> \o Decimal(product.stock) \o <<20214,10>>  \*   - 库存： | 件\n
        \o <<32,32,45,32,29305,28857,65306>> \o EcommerceAgent_get_product_features(product) \o <<10,10>>  \*   - 特点： | \n\n

\* _recommend_products(category, context) with context["query"] = query.
\* The function reads query.lower(): every text it looks for in it (the
\* category names, the price phrases, 促销, 优惠, 活动) is made of characters
\* without case, which lower() leaves as and where they are, and lower()
\* produces none of them, so the tests are made on the query itself
EcommerceAgent_recommend_products(category_arg, query) ==
    LET category == EcommerceAgent_recommend_category(category_arg, query)
        price_range == EcommerceAgent_parse_price_range(query)
        sorted_products ==
            IF price_range # NoRange
            THEN sorted_by_rating(
                     InPriceRange(EcommerceAgent_products(category), price_range), FALSE)
            ELSE sorted_by_rating(EcommerceAgent_products(category), TRUE)
        is_promotion_query == ContainsAny(query, << <<20419,38144>>, <<20248,24800>>, <<27963,21160>> >>)  \* 促销 | 优惠 | 活动
    IN IF category = NoCategory \/ category = <<>>
       THEN <<35831,21578,35785,25105,24744,23545,21738,31867,21830,21697,24863,20852,36259,65311,25105,20204,21487,20197,25512,33616,25163,26426,12289,31508,35760,26412,30005,33041,12289,32819,26426,21644,24179,26495,30005,33041,31561,12290>>  \* 请告诉我您对哪类商品感兴趣？我们可以推荐手机、笔记本电脑、耳机和平板电脑等。
       ELSE IF EcommerceAgent_products(category) = <<>>
       THEN <<25265,27465,65292,26242,26102,27809,26377>> \o category \o <<30340,25512,33616,12290>>  \* 抱歉，暂时没有 | 的推荐。
       ELSE IF sorted_products = <<>>
       THEN <<25265,27465,65292,27809,26377,25214,21040,31526,21512,20215,26684,35201,27714,30340>> \o category \o <<25512,33616,12290>>  \* 抱歉，没有找到符合价格要求的 | 推荐。
       ELSE <<26681,25454,24744,30340,38656,27714,65292,20026,24744,25512,33616,20197,19979>> \o category  \* 根据您的需求，为您推荐以下
                \o (IF is_promotion_query THEN <<20419,38144,21830,21697>> ELSE <<21830,21697>>)  \* 促销商品 | 商品
                \o <<65306,10,10>>  \* ：\n\n
                \o Join([n \in 1..Min({3, Len(sorted_products)}) |->
                           EcommerceAgent_recommend_item(sorted_products[n],
                                                         is_promotion_query)])
                \o (IF price_range # NoRange
                    THEN <<10,20197,19978,26159>> \o Decimal(price_range[2]) \o <<20803,20197,19979,30340>> \o category  \* \n以上是 | 元以下的
                             \o <<25512,33616,65292,22914,26524,39044,31639,21487,20197,25552,39640,65292,36824,26377,26356,22810,20248,36873,21830,21697,20379,24744,21442,32771,12290>>  \* 推荐，如果预算可以提高，还有更多优选商品供您参考。
                    ELSE <<>>)
                \o (IF is_promotion_query
                    THEN <<10,10,24403,21069,20419,38144,27963,21160,65306,10>>  \* \n\n当前促销活动：\n
                             \o <<49,46,32,21315,20803,20197,19978,21830,21697,31435,20943,49,48,37,10>>  \* 1. 千元以上商品立减10%\n
                             \o <<50,46,32,21315,20803,20197,19979,21830,21697,57,25240,20248,24800,10>>  \* 2. 千元以下商品9折优惠\n
                             \o <<51,46,32,27963,21160,26102,38388,65306,38480,26102,29305,24800,65292,27426,36814,21672,35810,20855,20307,35814,24773>>  \* 3. 活动时间：限时特惠，欢迎咨询具体详情
                    ELSE <<>>)

\* the dict guides of _provide_shopping_guide, in the order of its keys
EcommerceAgent_guides ==
    << [category |-> <<25163,26426>>,  \* 手机
         text |-> <<25163,26426,36873,36141,25351,21335,10>>  \* 手机选购指南\n
                   \o <<10>>  \* \n
                   \o <<20027,35201,32771,34385,22240,32032,65306,10>>  \* 主要考虑因素：\n
                   \o <<49,46,32,24615,33021,37197,32622,65306,22788,29702,22120,12289,20869,23384,12289,23384,20648,31354,38388,10>>  \* 1. 性能配置：处理器、内存、存储空间\n
                   \o <<50,46,32,25293,29031,21151,33021,65306,25668,20687,22836,21442,25968,12289,38450,25238,12289,22812,25293,10>>  \* 2. 拍照功能：摄像头参数、防抖、夜拍\n
                   \o <<51,46,32,30005,27744,32493,33322,65306,30005,27744,23481,37327,12289,24555,20805,25216,26415,10>>  \* 3. 电池续航：电池容量、快充技术\n
                   \o <<52,46,32,23631,24149,21697,36136,65306,20998,36776,29575,12289,21047,26032,29575,12289,26174,31034,25216,26415,10>>  \* 4. 屏幕品质：分辨率、刷新率、显示技术\n
                   \o <<53,46,32,25163,26426,23610,23544,65306,37325,37327,12289,25569,25345,24863,12289,20415,25658,24615,10>>  \* 5. 手机尺寸：重量、握持感、便携性\n
                   \o <<10>>  \* \n
                   \o <<36873,36141,24314,35758,65306,10>>  \* 选购建议：\n
                   \o <<8226,32,26126,30830,39044,31639,21644,20351,29992,38656,27714,10>>  \* • 明确预算和使用需求\n
                   \o <<8226,32,23545,27604,19981,21516,21697,29260,22411,21495,10>>  \* • 对比不同品牌型号\n
                   \o <<8226,32,26597,30475,29992,25143,30495,23454,35780,20215,10>>  \* • 查看用户真实评价\n
                   \o <<8226,32,20851,27880,21806,21518,26381,21153,25919,31574>>],  \* • 关注售后服务政策
       [category |-> <<31508,35760,26412,30005,33041>>,  \* 笔记本电脑
         text |-> <<31508,35760,26412,30005,33041,36873,36141,25351,21335,10>>  \* 笔记本电脑选购指南\n
                   \o <<10>>  \* \n
                   \o <<20027,35201,32771,34385,22240,32032,65306,10>>  \* 主要考虑因素：\n
                   \o <<49,46,32,22788,29702,22120,24615,33021,65306,67,80,85,22411,21495,12289,26680,24515,25968,10>>  \* 1. 处理器性能：CPU型号、核心数\n
                   \o <<50,46,32,26174,21345,37197,32622,65306,29420,31435,26174,21345,47,38598,25104,26174,21345,10>>  \* 2. 显卡配置：独立显卡/集成显卡\n
                   \o <<51,46,32,20869,23384,23481,37327,65306,24314,35758,56,71,66,36215,27493,10>>  \* 3. 内存容量：建议8GB起步\n
                   \o <<52,46,32,23384,20648,26041,26696,65306,83,83,68,43,72,68,68,32452,21512,10>>  \* 4. 存储方案：SSD+HDD组合\n
                   \o <<53,46,32,23631,24149,32032,36136,65306,20998,36776,29575,12289,33394,22495,12289,20142,24230,10>>  \* 5. 屏幕素质：分辨率、色域、亮度\n
                   \o <<10>>  \* \n
                   \o <<36873,36141,24314,35758,65306,10>>  \* 选购建议：\n
                   \o <<8226,32,26681,25454,20351,29992,22330,26223,36873,25321,10>>  \* • 根据使用场景选择\n
                   \o <<8226,32,27880,24847,25955,28909,35774,35745,10>>  \* • 注意散热设计\n
                   \o <<8226,32,32771,34385,25509,21475,25193,23637,24615,10>>  \* • 考虑接口扩展性\n
                   \o <<8226,32,36873,25321,21512,36866,30340,37325,37327,10>>  \* • 选择合适的重量\n
                   \o <<8226,32,20851,27880,32493,33322,33021,21147,10>>  \* • 关注续航能力\n
                   \o <<8226,32,30830,35748,20445,20462,25919,31574>>],  \* • 确认保修政策
       [category |-> <<32819,26426>>,  \* 耳机
         text |-> <<32819,26426,36873,36141,25351,21335,10>>  \* 耳机选购指南\n
                   \o <<10>>  \* \n
                   \o <<20027,35201,32771,34385,22240,32032,65306,10>>  \* 主要考虑因素：\n
                   \o <<49,46,32,20329,25140,26041,24335,65306,20837,32819,24335,47,22836,25140,24335,10>>  \* 1. 佩戴方式：入耳式/头戴式\n
                   \o <<50,46,32,36830,25509,26041,24335,65306,26377,32447,47,26080,32447,10>>  \* 2. 连接方式：有线/无线\n
                   \o <<51,46,32,38899,36136,34920,29616,65306,39057,21709,33539,22260,12289,38477,22122,10>>  \* 3. 音质表现：频响范围、降噪\n
                   \o <<52,46,32,32493,33322,26102,38388,65306,30005,27744,23481,37327,12289,20805,30005,36895,24230,10>>  \* 4. 续航时间：电池容量、充电速度\n
                   \o <<53,46,32,38450,27700,38450,27735,65306,36816,21160,20351,29992,38656,27714,10>>  \* 5. 防水防汗：运动使用需求\n
                   \o <<10>>  \* \n
                   \o <<36873,36141,24314,35758,65306,10>>  \* 选购建议：\n
                   \o <<8226,32,30830,23450,20351,29992,22330,26223,10>>  \* • 确定使用场景\n
                   \o <<8226,32,35797,21548,38899,36136,25928,26524,10>>  \* • 试听音质效果\n
                   \o <<8226,32,26816,26597,20329,25140,33298,36866,24230,10>>  \* • 检查佩戴舒适度\n
                   \o <<8226,32,20102,35299,21806,21518,20445,38556>>],  \* • 了解售后保障
       [category |-> <<24179,26495,30005,33041>>,  \* 平板电脑
         text |-> <<24179,26495,30005,33041,36873,36141,25351,21335,10>>  \* 平板电脑选购指南\n
                   \o <<10>>  \* \n
                   \o <<20027,35201,32771,34385,22240,32032,65306,10>>  \* 主要考虑因素：\n
                   \o <<49,46,32,23631,24149,22823,23567,65306,20415,25658,24615,19982,26174,31034,25928,26524,10>>  \* 1. 屏幕大小：便携性与显示效果\n
                   \o <<50,46,32,31995,32479,29983,24577,65306,24212,29992,21830,24215,36164,28304,10>>  \* 2. 系统生态：应用商店资源\n
                   \o <<51,46,32,22788,29702,24615,33021,65306,21150,20844,47,23089,20048,38656,27714,10>>  \* 3. 处理性能：办公/娱乐需求\n
                   \o <<52,46,32,37197,20214,25903,25345,65306,25163,20889,31508,47,38190,30424,10>>  \* 4. 配件支持：手写笔/键盘\n
                   \o <<53,46,32,32493,33322,33021,21147,65306,30005,27744,23481,37327,10>>  \* 5. 续航能力：电池容量\n
                   \o <<10>>  \* \n
                   \o <<36873,36141,24314,35758,65306,10>>  \* 选购建议：\n
                   \o <<8226,32,26126,30830,20351,29992,30446,30340,10>>  \* • 明确使用目的\n
                   \o <<8226,32,32771,34385,25193,23637,24615,33021,10>>  \* • 考虑扩展性能\n
                   \o <<8226,32,23545,27604,19981,21516,21697,29260,10>>  \* • 对比不同品牌\n
                   \o <<8226,32,20851,27880,31995,32479,26356,26032,10>>  \* • 关注系统更新\n
                   \o <<8226,32,35780,20272,37197,20214,25104,26412>>] >>  \* • 评估配件成本

\* _provide_shopping_guide(category): what the generator yields, the guide
\* character by character or the apology in one piece
EcommerceAgent_provide_shopping_guide(category) ==
    LET guides == EcommerceAgent_guides
    IN IF \E n \in 1..Len(guides) : guides[n].category = category
       THEN Chars(guides[CHOOSE n \in 1..Len(guides) : guides[n].category = category].text)
       ELSE << <<25265,27465,65292,26242,26102,27809,26377,35813,31867,21830,21697,30340,36141,29289,25351,21335,12290,25105,20204,30446,21069,25552,20379,25163,26426,12289,31508,35760,26412,30005,33041,12289,32819,26426,21644,24179,26495,30005,33041,30340,36873,36141,24314,35758,12290>> >>  \* 抱歉，暂时没有该类商品的购物指南。我们目前提供手机、笔记本电脑、耳机和平板电脑的选购建议。

HexDigits == <<48,49,50,51,52,53,54,55,56,57,97,98,99,100,101,102>>  \* 0123456789abcdef

\* what json.dumps(..., ensure_ascii=False) writes for one character of a str
JsonChar(c) ==
    CASE c = 34 -> <<92, 34>>  \* " | \ | "
      [] c = 92 -> <<92, 92>>  \* \ | \ | \
      [] c = 10 -> <<92, 110>>  \* \ | n
      [] c = 13 -> <<92, 114>>  \* \ | r
      [] c = 9 -> <<92, 116>>  \* \ | t
      [] c = 8 -> <<92, 98>>  \* \ | b
      [] c = 12 -> <<92, 102>>  \* \ | f
      [] c < 32 /\ c \notin {8, 9, 10, 12, 13} ->
            <<92, 117, 48, 48, HexDigits[(c \div 16) + 1], HexDigits[(c % 16) + 1]>>  \* \ | u | 0 | 0
      [] OTHER -> <<c>>

\* json.dumps(s, ensure_ascii=False) of a str
JsonString(s) == <<34>> \o Join([i \in 1..Len(s) |-> JsonChar(s[i])]) \o <<34>>  \* " | "

\* the prompt of _generate_cart_response for the cart of __init__, which no
\* operation of the agent fills: no items, total 0
EcommerceAgent_cart_prompt(query) ==
    <<10,32,32,32,32,32,32,32,32,32,32,32,32,20320,29616,22312,26159,19968,20010,19987,19994,30340,30005,21830,23458,26381,21161,25163,12290,10>>  \* \n            你现在是一个专业的电商客服助手。\n
        \o <<32,32,32,32,32,32,32,32,32,32,32,32,29992,25143,38382,39064,65306>> \o query \o <<10>>  \*             用户问题： | \n
        \o <<32,32,32,32,32,32,32,32,32,32,32,32,36141,29289,36710,20449,24687,65306>>  \*             购物车信息：
        \o <<123>> \o JsonString(<<99,97,114,116,95,105,116,101,109,115>>) \o <<58,32,91,93,44,32>>  \* { | cart_items | : [], 
        \o JsonString(<<99,97,114,116,95,116,111,116,97,108>>) \o <<58,32,48,44,32>>  \* cart_total | : 0, 
        \o JsonString(<<113,117,101,114,121>>) \o <<58,32>> \o JsonString(query) \o <<125>> \o <<10>>  \* query | :  | } | \n
        \o <<32,32,32,32,32,32,32,32,32,32,32,32,35831,26681,25454,20197,19978,20449,24687,65292,29983,25104,19987,19994,12289,21451,22909,30340,22238,31572,65292,35299,37322,36141,29289,36710,29366,24577,24182,25552,20379,24110,21161,12290,10>>  \*             请根据以上信息，生成专业、友好的回答，解释购物车状态并提供帮助。\n
        \o <<32,32,32,32,32,32,32,32,32,32,32,32>>  \*             

\* _handle_cart_query and _generate_cart_response: the automatic strategy on
\* the prompt with an empty history, its stream collected into one str
EcommerceAgent_generate_cart_response(query, env) ==
    LET s == EcommerceAgent_auto_select_model(EcommerceAgent_cart_prompt(query), <<>>, env)
    IN [response |-> IF AllStr(s.frags)
                     THEN Join(s.frags)
                     ELSE <<25265,27465,65292,22788,29702,36141,29289,36710,26597,35810,26102,36935,21040,38382,39064,12290,35831,31245,21518,20877,35797,25110,32852,31995,23458,26381,23547,27714,24110,21161,12290>>,  \* 抱歉，处理购物车查询时遇到问题。请稍后再试或联系客服寻求帮助。
        calls |-> s.calls]

\* EcommerceAgent.process: what iterating result["response"] yields (the
\* characters of a str, the pieces of the guide generator) when no exception
\* is raised (EcommerceAgent_process_result has the except branch), and
\* self.products_db after the call; env.keywords is the list
\* extract_keywords returned
EcommerceAgent_process(user_input, context, env) ==
    LET a == EcommerceAgent_analyze_query_pair(user_input, env.keywords)
    IN CASE a.query_type = "order_query" ->
                [frags |-> Chars(EcommerceAgent_query_order(user_input)), calls |-> <<>>,
                 products_db |-> products_db]
         [] a.query_type = "product_search" ->
                [frags |-> Chars(EcommerceAgent_search_products(a.category,
                                                                env.keywords).response),
                 calls |-> <<>>,
                 products_db |-> EcommerceAgent_search_products(a.category,
                                                                env.keywords).products_db]
         [] a.query_type = "product_recommendation" ->
                [frags |-> Chars(EcommerceAgent_recommend_products(a.category, user_input)),
                 calls |-> <<>>, products_db |-> products_db]
         [] a.query_type = "shopping_guide" ->
                [frags |-> EcommerceAgent_provide_shopping_guide(a.category), calls |-> <<>>,
                 products_db |-> products_db]
         [] a.query_type = "shopping_cart" ->
                LET g == EcommerceAgent_generate_cart_response(user_input, env)
                IN [frags |-> Chars(g.response), calls |-> g.calls,
                    products_db |-> products_db]
         [] a.query_type = "general" ->
                LET g == EcommerceAgent_general_ecommerce_response(user_input, env)
                IN [frags |-> Chars(g.response), calls |-> g.calls,
                    products_db |-> products_db]
----------------------------------------------------------------------------
(* The ranking run repeatedly on a catalog *)

MaxRuns == 2

\* catalogs of three phones
\* at one price two phones score the same (a stock of 100 or more counts as
\* 100), and the scores of two more differ by one unit in the last place
CatalogPrices == {1000, 2000}
CatalogOffers == {<<41, 60>>, <<42, 52>>, <<42, 100>>, <<42, 200>>}

\* the phones are numbered in the order in which the catalog lists them
Catalogs ==
    {[n \in 1..3 |-> [id |-> n, name |-> <<26234,33021,25163,26426>>, brand |-> <<21697,29260,88>>,  \* 智能手机 | 品牌X
                      price |-> c[n][1], rating |-> c[n][2][1],
                      stock |-> c[n][2][2], value_score |-> NoScore]] :
        c \in [1..3 -> CatalogPrices \X CatalogOffers]}

\* the catalog of __init__ with the phones of the list
CatalogWith(phones) ==
    [n \in 1..Len(EcommerceAgent_products_db) |->
        IF EcommerceAgent_products_db[n].category = <<25163,26426>>  \* 手机
        THEN [EcommerceAgent_products_db[n] EXCEPT !.products = phones]
        ELSE EcommerceAgent_products_db[n]]

\* probe.catalog is self.products_db["手机"] as it was constructed; result
\* holds the order of each report
InitRank ==
    /\ CoreAgentInit
    /\ probe \in [catalog : Catalogs]
    /\ products_db = CatalogWith(probe.catalog)
    /\ result = Pending

\* _search_products("手机", keywords): every product of the catalog list
\* gets its value score, the list is sorted in place and the report lists it
SearchProducts ==
    /\ Len(result) < MaxRuns
    /\ products_db' = EcommerceAgent_search_products(<<25163,26426>>, <<>>).products_db  \* 手机
    /\ result' = Append(result, ReportOrder(ProductsOf(products_db', <<25163,26426>>)))  \* 手机
    /\ UNCHANGED probe
    /\ CoreAgentIdle

SpecRank == InitRank /\ [][SearchProducts]_vars

\* self.products_db["手机"]
Phones == ProductsOf(products_db, <<25163,26426>>)  \* 手机

\* the product of the catalog list that has the id
Scored(id) == Phones[CHOOSE n \in 1..Len(Phones) : Phones[n].id = id]

\* C17: every run of the ranking on the unchanged catalog reports the same
\* order, and products with equal scores are reported in the order in
\* which the catalog was constructed.
C17_RankingStable ==
    \A r \in 1..Len(result) :
        /\ result[r] = result[1]
        /\ \A i \in 1..3, j \in 1..3 :
               (i < j /\ ScoresEqual(Scored(result[r][i]), Scored(result[r][j])))
                   => result[r][i] < result[r][j]

\* two runs on a catalog whose first product scores lowest and whose other
\* two products differ and score the same
C17_Witness ==
    /\ Len(result) = MaxRuns
    /\ probe.catalog[2].stock # probe.catalog[3].stock
    /\ ScoresEqual(Scored(2), Scored(3))
    /\ result[2] = <<2, 3, 1>>

\* C29: a product search leaves the product catalog unchanged: after
\* _search_products returns, every catalog list has the same items, in the
\* same order, with the same fields as before the call
C29_CatalogUnchanged ==
    result # Pending => products_db = CatalogWith(probe.catalog)

----------------------------------------------------------------------------
(* The result dict of a domain agent's process, for any value handed to it  *)
(* as user_input: None, an int or a str (kind is the name of its type).    *)
(* A result is                                                              *)
(*   success, error  - result["success"] and str(e) (empty on success),     *)
(*   frags, calls    - the response and the model calls, as above,          *)
(*   hist            - the list of context["conversation_history"] and      *)
(*   products_db     - EcommerceAgent.products_db after the call.           *)

NoneInput == [kind |-> <<78,111,110,101,84,121,112,101>>, text |-> <<>>]  \* NoneType
IntInput == [kind |-> <<105,110,116>>, text |-> <<>>]  \* int
StrInput(text) == [kind |-> <<115,116,114>>, text |-> text]  \* str

FailedResult(error, hist) ==
    [success |-> FALSE, error |-> error, frags |-> <<>>, calls |-> <<>>,
     hist |-> hist, products_db |-> products_db]

SuccessResult(r, hist, db) ==
    [success |-> TRUE, error |-> <<>>, frags |-> r.frags, calls |-> r.calls,
     hist |-> hist, products_db |-> db]

\* the order branch of process raises
EcommerceAgent_order_raises(user_input) ==
    /\ EcommerceAgent_analyze_query(user_input) = "order_query"
    /\ IsRaise(EcommerceAgent_query_order(user_input))

\* EcommerceAgent.process: the validation of lines 109-110 or the order branch
\* raises, and the except of lines 155-161 makes the result
EcommerceAgent_process_result(input, context, env) ==
    IF input.kind # <<115,116,114>>  \* str
    THEN FailedResult(<<36755,20837,24517,39035,26159,38750,31354,23383,31526,20018>>, ContextHistory(context))  \* 输入必须是非空字符串
    ELSE IF EcommerceAgent_order_raises(input.text)
    THEN FailedResult(Message(EcommerceAgent_query_order(input.text)), ContextHistory(context))
    ELSE SuccessResult(EcommerceAgent_process(input.text, context, env),
                       ContextHistory(context),
                       EcommerceAgent_process(input.text, context, env).products_db)

\* EducationAgent.process: re.sub in extract_keywords raises TypeError for a
\* value that is not a str
EducationAgent_process_result(input, context, env) ==
    IF input.kind # <<115,116,114>>  \* str
    THEN FailedResult(<<101,120,112,101,99,116,101,100,32,115,116,114,105,110,103,32,111,114,32,98,121,116,101,115,45,108,105,107,101,32,111,98,106,101,99,116,44,32,103,111,116,32,39>>  \* expected string or bytes-like object, got '
                          \o input.kind \o <<39>>, ContextHistory(context))  \* '
    ELSE SuccessResult(EducationAgent_process(input.text, context, env),
                       EducationAgent_process(input.text, context, env).hist,
                       products_db)

\* str(e) of the TypeError of "".join(...) over a stream with a chunk that
\* is not a str: it names the index of the first such chunk
JoinError(frags) ==
    LET i == CHOOSE n \in 1..Len(frags) :
                 frags[n] = IntChunk /\ \A m \in 1..(n - 1) : frags[m] # IntChunk
    IN <<115,101,113,117,101,110,99,101,32,105,116,101,109,32>> \o Decimal(i - 1) \o <<58,32,101,120,112,101,99,116,101,100,32,115,116,114,32,105,110,115,116,97,110,99,101,44,32,105,110,116,32,102,111,117,110,100>>  \* sequence item  | : expected str instance, int found

GovernmentAgent_join_fails(user_input, context, env) ==
    /\ ~GovernmentAgent_is_id_card_query(user_input)
    /\ ~AllStr(GovernmentAgent_generate(user_input, context, env).frags)

\* the except of lines 199-205, after the models were called
GovernmentAgent_join_failed(s) ==
    [success |-> FALSE, error |-> JoinError(s.frags), frags |-> <<>>, calls |-> s.calls,
     hist |-> s.hist, products_db |-> products_db]

\* GovernmentAgent.process: `word in text` in SentimentAgent raises TypeError
GovernmentAgent_process_result(input, context, env) ==
    IF input.kind # <<115,116,114>>  \* str
    THEN FailedResult(<<97,114,103,117,109,101,110,116,32,111,102,32,116,121,112,101,32,39>> \o input.kind  \* argument of type '
                          \o <<39,32,105,115,32,110,111,116,32,105,116,101,114,97,98,108,101>>, ContextHistory(context))  \* ' is not iterable
    ELSE IF GovernmentAgent_join_fails(input.text, context, env)
    THEN GovernmentAgent_join_failed(GovernmentAgent_generate(input.text, context, env))
    ELSE SuccessResult(GovernmentAgent_process(input.text, context, env),
                       GovernmentAgent_process(input.text, context, env).hist,
                       products_db)


----------------------------------------------------------------------------
(* Weather: WeatherQueryTool.parse_query (the city) and _route_to_weather *)

WeatherQueryTool_removed_words ==
    << <<22825,27668>>, <<26597,35810>>, <<30340>>, <<24590,20040,26679>>, <<22914,20309>>, <<26410,26469>>, <<20170,22825>>, <<26126,22825>>, <<21518,22825>> >>  \* 天气 | 查询 | 的 | 怎么样 | 如何 | 未来 | 今天 | 明天 | 后天

\* the length of the match of (天气|查询|的|怎么样|如何|未来|今天|明天|后天|\d+天|一周)
\* at offset i of text, 0 if there is none
WeatherQueryTool_removed_at(text, i) ==
    LET words == WeatherQueryTool_removed_words
        hits == {n \in 1..Len(words) : OccursAt(words[n], text, i)}
        run == {m \in 1..(Len(text) - i) : \A k \in 1..m : text[i + k] \in Digits}
        longest == CHOOSE m \in run : \A r \in run : r <= m
    IN IF hits # {} THEN Len(words[CHOOSE n \in hits : \A h \in hits : n <= h])
       ELSE IF run # {} /\ OccursAt(<<22825>>, text, i + longest) THEN longest + 1  \* 天
       ELSE IF OccursAt(<<19968,21608>>, text, i) THEN 2  \* 一周
       ELSE 0

\* re.sub(that pattern, '', text), from offset i on
RECURSIVE WeatherQueryTool_clean(_, _)
WeatherQueryTool_clean(text, i) ==
    IF i >= Len(text) THEN <<>>
    ELSE LET m == WeatherQueryTool_removed_at(text, i)
         IN IF m > 0 THEN WeatherQueryTool_clean(text, i + m)
            ELSE <<text[i + 1]>> \o WeatherQueryTool_clean(text, i + 1)

NoCity == <<-5>>

\* parse_query(text)["city"]: the leftmost run of two to four characters of
\* [一-龥] in the cleaned text
WeatherQueryTool_parse_query_city(text) ==
    LET clean_text == Strip(WeatherQueryTool_clean(text, 0))
        starts == {i \in 1..(Len(clean_text) - 1) :
                      clean_text[i] \in CJK /\ clean_text[i + 1] \in CJK}
    IN IF starts = {} THEN NoCity
       ELSE LET i == CHOOSE s \in starts : \A t \in starts : s <= t
                lens == {n \in 2..4 : i + n - 1 <= Len(clean_text)
                                        /\ \A k \in 0..(n - 1) : clean_text[i + k] \in CJK}
            IN SubSeq(clean_text, i, i + (CHOOSE n \in lens : \A l \in lens : l <= n) - 1)

\* _route_to_weather; env.weather_reply is the str WeatherAgent.process
\* returns for the query (the weather service is not modelled)
_route_to_weather(user_input, context, env) ==
    IF WeatherQueryTool_parse_query_city(user_input) = NoCity
    THEN <<25265,27465,65292,25105,27809,26377,35782,21035,20986,24744,24819,26597,35810,21738,20010,22478,24066,30340,22825,27668,12290,35831,26126,30830,25351,23450,22478,24066,21517,31216,12290>>  \* 抱歉，我没有识别出您想查询哪个城市的天气。请明确指定城市名称。
    ELSE env.weather_reply

----------------------------------------------------------------------------
(* CoreAgent: the agent router.  The result is the stream handed to          *)
(* process_input (a str is iterated character by character), the model       *)
(* calls made to produce it and, as they are afterwards, the Dispatcher's    *)
(* history list (hist), the list of context["conversation_history"]          *)
(* (context_list) and the catalog of the e-commerce agent (products_db).     *)

Routed(r, hist, context_list, db) ==
    [frags |-> r.frags, calls |-> r.calls, hist |-> hist, context_list |-> context_list,
     products_db |-> db]

\* the conversation agent is handed self.conversation_history (line 197)
\* and does not read the list of the context
ConversationRouted(r, context) == Routed(r, r.hist, ContextHistory(context), products_db)

\* a domain agent is handed the context alone: the list it reads and may
\* change is context["conversation_history"], which is the Dispatcher's list
\* when the caller put that object there
DomainRouted(r, history, context) ==
    Routed(r,
           IF context.conversation_history.id = 0 THEN r.hist ELSE history,
           IF context.conversation_history.id = -1 THEN <<>> ELSE r.hist,
           r.products_db)

\* a route that asks no agent of its own
FixedRouted(response, history, context) ==
    [frags |-> Chars(response), calls |-> <<>>, hist |-> history,
     context_list |-> ContextHistory(context), products_db |-> products_db]

_route_to_conversation(user_input, history, context, env) ==
    ConversationRouted(ConversationAgent_process(user_input, history, context, env), context)

\* what a domain route returns for a result dict: result["response"], or
\* the apology with result["error"] when success is false
route_response(r) ==
    IF r.success
    THEN [frags |-> r.frags, calls |-> r.calls, hist |-> r.hist,
          products_db |-> r.products_db]
    ELSE [frags |-> Chars(<<25265,27465,65292,22788,29702,36935,21040,38382,39064,58,32>> \o r.error), calls |-> r.calls,  \* 抱歉，处理遇到问题: 
          hist |-> r.hist, products_db |-> r.products_db]

_route_to_education(user_input, context, env) ==
    route_response(EducationAgent_process_result(StrInput(user_input), context, env))

_route_to_ecommerce(user_input, context, env) ==
    route_response(EcommerceAgent_process_result(StrInput(user_input), context, env))

_route_to_government(user_input, context, env) ==
    route_response(GovernmentAgent_process_result(StrInput(user_input), context, env))

\* _route_to_voice: a fixed text, no service is asked
_route_to_voice(user_input, context) ==
    <<35821,38899,65,103,101,110,116,22788,29702,20013,46,46,46,10,10,36825,26159,19968,20010,20020,26102,22238,22797,65292,23454,38469,39033,30446,20013,20250,35843,29992,35821,38899,35782,21035,27169,22411,22788,29702,12290>>  \* 语音Agent处理中...\n\n这是一个临时回复，实际项目中会调用语音识别模型处理。

\* _route_to_sentiment: a fixed text around the input, no service is asked
_route_to_sentiment(user_input, context) ==
    <<24773,24863,20998,26512,65,103,101,110,116,22788,29702,20013,46,46,46,10,10,24744,30340,36755,20837,26159,65306>> \o user_input  \* 情感分析Agent处理中...\n\n您的输入是：
        \o <<10,10,36825,26159,19968,20010,20020,26102,22238,22797,65292,23454,38469,39033,30446,20013,20250,20998,26512,24773,24863,24182,32473,20986,30456,24212,22238,22797,12290>>  \* \n\n这是一个临时回复，实际项目中会分析情感并给出相应回复。

\* the keys of self.agent_router
agent_router_keys ==
    {"conversation", "weather", "voice", "sentiment", "education", "ecommerce", "government"}

\* self.agent_router[agent_type](user_input, context), with
\* self.conversation_history holding history
agent_router(agent_type, user_input, history, context, env) ==
    CASE agent_type = "conversation" ->
            _route_to_conversation(user_input, history, context, env)
      [] agent_type = "weather" ->
            FixedRouted(_route_to_weather(user_input, context, env), history, context)
      [] agent_type = "voice" ->
            FixedRouted(_route_to_voice(user_input, context), history, context)
      [] agent_type = "sentiment" ->
            FixedRouted(_route_to_sentiment(user_input, context), history, context)
      [] agent_type = "education" ->
            DomainRouted(_route_to_education(user_input, BoundContext(context, history), env),
                         history, context)
      [] agent_type = "ecommerce" ->
            DomainRouted(_route_to_ecommerce(user_input, BoundContext(context, history), env),
                         history, context)
      [] agent_type = "government" ->
            DomainRouted(_route_to_government(user_input, BoundContext(context, history), env),
                         history, context)

\* lines 131-136: the routed agent, or the conversation agent for a type
\* that is no key of the table
invoke_agent(agent_type, user_input, history, context, env) ==
    IF agent_type \in agent_router_keys
    THEN agent_router(agent_type, user_input, history, context, env)
    ELSE _route_to_conversation(user_input, history, context, env)

----------------------------------------------------------------------------
(* SentimentAnalysisTool.adjust_response and CoreAgent.process_voice_input *)

\* SentimentAnalysisTool.response_templates: the text before {response}
SentimentAnalysisTool_response_templates(sentiment) ==
    CASE LowerIs(sentiment, <<112,111,115,105,116,105,118,101>>) ->  \* positive
            << <<24456,39640,20852,30475,21040,24744,24515,24773,19981,38169,65281>>, <<24744,30340,31215,26497,24577,24230,30495,35753,20154,24841,24555,65281>>, <<22826,22909,20102,65281>> >>  \* 很高兴看到您心情不错！ | 您的积极态度真让人愉快！ | 太好了！
      [] LowerIs(sentiment, <<110,101,103,97,116,105,118,101>>) ->  \* negative
            << <<29702,35299,24744,30340,24515,24773,12290>>, <<21035,25285,24515,65292,35753,25105,26469,24110,24744,12290>>, <<25105,26126,30333,24744,30340,24863,21463,12290>> >>  \* 理解您的心情。 | 别担心，让我来帮您。 | 我明白您的感受。
      [] OTHER ->
            << <<>>, <<22909,30340,65292,25105,26126,30333,20102,12290>>, <<25105,26469,24110,24744,22238,31572,12290>> >>  \*  | 好的，我明白了。 | 我来帮您回答。

SentimentAnalysisTool_adjust_response(base_response, sentiment_result, choice) ==
    SentimentAnalysisTool_response_templates(
        sentiment_result.sentiment_analysis.sentiment)[choice] \o base_response

\* process_voice_input: voice is what voice_agent.process_input returned:
\* an error, or the recognized text with a sentiment result (analysed) or
\* with None.  The result is the returned dict (its text_response, or the
\* error), the model calls made and the history list afterwards
process_voice_input(voice, history, context, env) ==
    IF voice.error
    THEN [returned |-> [error |-> TRUE, text_response |-> <<>>],
          calls |-> <<>>, hist |-> history]
    ELSE LET r == ConversationAgent_process(voice.recognized_text, history, context, env)
             base_response == Join(r.frags)
             adjusted_response ==
                 IF FlagOn(context.sentiment_enabled) /\ voice.analysed
                 THEN SentimentAnalysisTool_adjust_response(
                          base_response, voice.sentiment_result, env.voice_choice)
                 ELSE base_response
         IN [returned |-> [error |-> FALSE, text_response |-> adjusted_response],
             calls |-> r.calls,
             hist |-> r.hist]

----------------------------------------------------------------------------
(* CoreAgent.process_input, a generator function: the call creates the      *)
(* generator object and runs nothing; the body runs from one yield to the   *)
(* next each time the caller asks for the next fragment.                    *)

\* self.conversation_history.append({"role": "user", "content": user_input})
record_user(history, user_input) ==
    Append(history, [role |-> "user", content |-> user_input])

\* self.conversation_history.append({"role": "assistant", "content": full_response})
record_reply(history, full_response) ==
    Append(history, [role |-> "assistant", content |-> full_response])

accumulate_last(full_response, chunk) == chunk

\* full_response += chunk
accumulate(full_response, chunk) == full_response \o chunk

\* the generator object of a call that has not run yet.  While the call
\* waits for a remote answer, env holds what the services answer to it and
\* posted the model requests it has posted.  passed and given tell which
\* list objects the call holds, passed the one it handed to the
\* conversation agent and given the one a context with the Dispatcher's
\* list gives its domain agent: <<>> for the list that
\* self.conversation_history holds, or <<[id, list]>> for a list object that
\* clear_history has replaced (id names the object, list is what it holds)
NewGenerator(user_input, context) ==
    [pc |-> "created", user_input |-> user_input, context |-> context,
     env |-> <<>>, posted |-> <<>>, passed |-> <<>>, given |-> <<>>,
     agent_frags |-> <<>>, rest |-> <<>>, delivered |-> <<>>, full_response |-> <<>>]

\* the list a running call handed to the conversation agent (lines 197 and
\* 310 pass self.conversation_history, the object): the Dispatcher's list,
\* or, once clear_history has rebound the attribute, the old object
ListPassed(call) ==
    IF call.passed = <<>> THEN conversation_history ELSE call.passed[1].list

\* which object that is, 0 for the Dispatcher's list
PassedId(call) == IF call.passed = <<>> THEN 0 ELSE call.passed[1].id

\* the context of the call as its agent finds it: its list is the object
\* the caller put there
ContextOf(call) ==
    IF call.given = <<>> THEN call.context
    ELSE [call.context EXCEPT !.conversation_history = call.given[1]]

\* the ids of the list objects that the calls hold
IdsOf(calls) ==
    UNION {{calls[n].passed[k].id : k \in 1..Len(calls[n].passed)}
               \cup {calls[n].given[k].id : k \in 1..Len(calls[n].given)} :
           n \in 1..Len(calls)}

\* the name of the list object that clear_history replaces: the first id
\* that names no other
ReplacedId ==
    CHOOSE k \in 1..(Cardinality(IdsOf(gens) \cup IdsOf(voice_call)) + 1) :
        /\ k \notin IdsOf(gens) \cup IdsOf(voice_call)
        /\ \A j \in 1..(k - 1) : j \in IdsOf(gens) \cup IdsOf(voice_call)

\* clear_history leaves the old list object to a context that holds it
Detached(call, id) ==
    IF call.context.conversation_history.id = 0 /\ call.given = <<>>
    THEN [call EXCEPT !.given = <<[id |-> id, list |-> conversation_history]>>]
    ELSE call

\* and to a call that has handed it to the conversation agent
Rebound(call, id) ==
    IF call.passed = <<>>
    THEN [Detached(call, id) EXCEPT !.passed = <<[id |-> id, list |-> conversation_history]>>]
    ELSE Detached(call, id)

\* one call after the list object id has been given the contents list:
\* every reference to the object shows them
Seen(call, id, list) ==
    [call EXCEPT !.passed = IF @ # <<>> /\ @[1].id = id
                            THEN <<[id |-> id, list |-> list]>> ELSE @,
                 !.given = IF @ # <<>> /\ @[1].id = id
                           THEN <<[id |-> id, list |-> list]>> ELSE @]

\* the calls after a list object other than the Dispatcher's has been
\* changed in place
Written(calls, id, list) ==
    IF id <= 0 THEN calls ELSE [n \in 1..Len(calls) |-> Seen(calls[n], id, list)]

\* the owners of the entries appended by generator g in this step
Owners(g) ==
    owner \o [i \in 1..(Len(conversation_history') - Len(conversation_history)) |-> g]

\* process_input(user_input, context) is called
ProcessInput(user_input, context) ==
    /\ gens' = Append(gens, NewGenerator(user_input, context))
    /\ requests' = <<>>
    /\ UNCHANGED <<conversation_history, owner, cleared, voice_call, products_db, probe, result>>

\* generator g leaves its wait
Released(g) ==
    [gens[g] EXCEPT !.env = <<>>, !.posted = <<>>, !.passed = <<>>, !.given = <<>>]

\* the loop of lines 139-145 from its start up to its first yield, or to
\* the end if the stream frags of the routed agent is empty; for a chunk
\* that is not a str, full_response += chunk raises TypeError before the
\* yield and nothing catches it: the generator ends with pc "raised".
\* history is the Dispatcher's list when the loop starts
StartStream(g, frags, history) ==
    /\ requests' = <<>>
    /\ voice_call' = voice_call
    /\ IF frags = <<>>
       THEN /\ conversation_history' = record_reply(history, <<>>)
            /\ gens' = [gens EXCEPT ![g] = [Released(g) EXCEPT !.pc = "done", !.agent_frags = frags]]
       ELSE IF Head(frags) = IntChunk
       THEN /\ conversation_history' = history
            /\ gens' = [gens EXCEPT ![g] = [Released(g) EXCEPT !.pc = "raised", !.agent_frags = frags]]
       ELSE /\ conversation_history' = history
            /\ gens' = [gens EXCEPT ![g] = [Released(g) EXCEPT
                                               !.pc = "suspended",
                                               !.agent_frags = frags,
                                               !.rest = Tail(frags),
                                               !.delivered = <<Head(frags)>>,
                                               !.full_response = accumulate(<<>>, Head(frags))]]

\* generator g blocks inside next() until a remote service answers: calls
\* are the model requests posted in this step (none when the service is not
\* a model), history is the Dispatcher's list when it blocks, and list what
\* the list object id holds then (an object that the client was given and
\* that the Dispatcher no longer holds)
Wait(g, env, calls, history, id, list) ==
    /\ requests' = calls
    /\ conversation_history' = history
    /\ gens' = Written([gens EXCEPT ![g].pc = "waiting", ![g].env = <<env>>,
                                    ![g].posted = gens[g].posted \o calls], id, list)
    /\ voice_call' = Written(voice_call, id, list)

\* the Dispatcher's list after a call that has posted n requests has built
\* its next request of r.calls: a client that appends the prompt to the
\* list it is given (the last request of a strategy, r.hist) changes the
\* Dispatcher's list unless clear_history has rebound it
ListAfter(n, call, r, history) ==
    IF n + 1 = Len(r.calls) /\ call.passed = <<>> THEN r.hist ELSE history

\* and the list the call handed to the conversation agent, after that request
PassedAfter(n, call, r) ==
    IF n + 1 = Len(r.calls) THEN r.hist ELSE ListPassed(call)

\* the routed agent asks a service that is not a model before it returns:
\* the weather service, for a query that names a city (weather_agent.py 43)
waits_before_request(agent_type, user_input, context) ==
    agent_type = "weather" /\ WeatherQueryTool_parse_query_city(user_input) # NoCity

\* lines 119-136: the user turn is recorded, the input routed and the
\* routed agent invoked
RouteAndInvoke(user_input, context, env) ==
    invoke_agent(_route_to_agent(user_input, context), user_input,
                 record_user(conversation_history, user_input), context, env)

\* the first next() from line 119 to the first remote request the routed
\* agent waits for, or to the first yield if it asks no service; r is what
\* the router gives on the list with the user turn.  A domain agent makes
\* its one model request on the list of the context, r.context_list
\* afterwards; a product search has ranked the catalog by then
Enter(g, env, r) ==
    /\ products_db' = r.products_db
    /\ IF waits_before_request(_route_to_agent(gens[g].user_input, gens[g].context),
                               gens[g].user_input, gens[g].context)
       THEN Wait(g, env, <<>>, record_user(conversation_history, gens[g].user_input),
                 0, <<>>)
       ELSE IF r.calls = <<>>
       THEN StartStream(g, r.frags, r.hist)
       ELSE Wait(g, env, <<r.calls[1]>>,
                 ListAfter(0, gens[g], r,
                           record_user(conversation_history, gens[g].user_input)),
                 ContextOf(gens[g]).conversation_history.id, r.context_list)

\* the first next() on generator g begins
FirstNext(g, env) ==
    /\ gens[g].pc = "created"
    /\ Enter(g, env, RouteAndInvoke(gens[g].user_input, ContextOf(gens[g]), env))
    /\ owner' = Owners(g)
    /\ UNCHANGED <<cleared, probe, result>>

\* the service generator g waits for has answered: the agent builds its
\* next model request from the list it was handed, as the list is now, and
\* waits again, or its stream starts; r is what the router gives on that
\* list
Answered(g, r) ==
    IF Len(gens[g].posted) < Len(r.calls)
    THEN Wait(g, gens[g].env[1], <<r.calls[Len(gens[g].posted) + 1]>>,
              ListAfter(Len(gens[g].posted), gens[g], r, conversation_history),
              PassedId(gens[g]), PassedAfter(Len(gens[g].posted), gens[g], r))
    ELSE StartStream(g, r.frags, conversation_history)

\* the first next() on generator g goes on after a wait
Resume(g) ==
    /\ gens[g].pc = "waiting"
    /\ Answered(g, invoke_agent(_route_to_agent(gens[g].user_input, gens[g].context),
                                gens[g].user_input, ListPassed(gens[g]), ContextOf(gens[g]),
                                gens[g].env[1]))
    /\ owner' = Owners(g)
    /\ UNCHANGED <<cleared, products_db, probe, result>>

\* a later next() on generator g: the loop goes on to the next yield, or
\* ends and the reply is recorded (line 145)
LaterNext(g) ==
    /\ gens[g].pc = "suspended"
    /\ IF gens[g].rest = <<>>
       THEN /\ conversation_history' =
                   record_reply(conversation_history, gens[g].full_response)
            /\ gens' = [gens EXCEPT ![g].pc = "done"]
       ELSE IF Head(gens[g].rest) = IntChunk
       THEN /\ conversation_history' = conversation_history
            /\ gens' = [gens EXCEPT ![g].pc = "raised"]
       ELSE /\ conversation_history' = conversation_history
            /\ gens' = [gens EXCEPT
                   ![g].rest = Tail(@),
                   ![g].delivered = Append(@, Head(gens[g].rest)),
                   ![g].full_response = accumulate(@, Head(gens[g].rest))]
    /\ owner' = Owners(g)
    /\ requests' = <<>>
    /\ UNCHANGED <<cleared, voice_call, products_db, probe, result>>

\* the caller drops generator g before it is exhausted
Abandon(g) ==
    /\ gens[g].pc \in {"created", "suspended"}
    /\ gens' = [gens EXCEPT ![g].pc = "closed", ![g].given = <<>>]
    /\ requests' = <<>>
    /\ UNCHANGED <<conversation_history, owner, cleared, voice_call, products_db, probe, result>>

\* the number of clear_history calls, at most
MaxClears == 1

\* clear_history(): self.conversation_history = [], a new list.  The old
\* list object stays with the calls that hold it: those that wait for an
\* answer and those that have not run yet and were given it in their context
ClearHistory ==
    /\ cleared < MaxClears
    /\ conversation_history' = <<>>
    /\ owner' = <<>>
    /\ cleared' = cleared + 1
    /\ requests' = <<>>
    /\ gens' = [g \in 1..Len(gens) |->
                   IF gens[g].pc = "waiting" THEN Rebound(gens[g], ReplacedId)
                   ELSE IF gens[g].pc = "created" THEN Detached(gens[g], ReplacedId)
                   ELSE gens[g]]
    /\ voice_call' = [n \in 1..Len(voice_call) |-> Rebound(voice_call[n], ReplacedId)]
    /\ UNCHANGED <<products_db, probe, result>>

\* the number of process_voice_input calls that wait for a model answer at
\* a time, at most
MaxVoiceCalls == 2

\* a process_voice_input call whose voice agent has returned voice; posted
\* is the number of model requests it has posted
NewVoiceCall(voice, context, env) ==
    [voice |-> voice, context |-> context, env |-> <<env>>, posted |-> 0,
     passed |-> <<>>, given |-> <<>>]

\* the waiting calls with the call at position n, a new call for n = 0
Placed(n, call) ==
    IF n = 0 THEN Append(voice_call, call) ELSE [voice_call EXCEPT ![n] = call]

\* the waiting calls without the one at position n, which has returned
Returned(n) ==
    IF n = 0 THEN voice_call
    ELSE SubSeq(voice_call, 1, n - 1) \o SubSeq(voice_call, n + 1, Len(voice_call))

\* process_voice_input from where it stands to its next model request, or
\* to its return (lines 306-332); r is what process_voice_input gives on
\* the list handed to the conversation agent, as the list is now.  The
\* waits in voice_agent.process_input and synthesize_speech come before the
\* first and after the last access to the Dispatcher's state.  The call
\* returns the dict r.returned
VoiceStep(n, call, r) ==
    IF call.posted < Len(r.calls)
    THEN /\ requests' = <<r.calls[call.posted + 1]>>
         /\ conversation_history' = ListAfter(call.posted, call, r, conversation_history)
         /\ voice_call' =
                Written(Placed(n, [call EXCEPT !.posted = @ + 1]),
                        PassedId(call), PassedAfter(call.posted, call, r))
         /\ gens' = Written(gens, PassedId(call), PassedAfter(call.posted, call, r))
    ELSE /\ requests' = <<>>
         /\ conversation_history' = conversation_history
         /\ voice_call' = Returned(n)
         /\ gens' = gens

\* process_voice_input(audio_data, context) runs up to its first model
\* request.  Nothing serializes the calls: another may be waiting
ProcessVoiceInput(voice, context, env) ==
    /\ Len(voice_call) < MaxVoiceCalls
    /\ VoiceStep(0, NewVoiceCall(voice, context, env),
                 process_voice_input(voice, conversation_history, context, env))
    /\ owner' = Owners(0)
    /\ UNCHANGED <<cleared, products_db, probe, result>>

\* the model has answered the request that the n-th waiting
\* process_voice_input call waits for
VoiceResume(n) ==
    /\ VoiceStep(n, voice_call[n],
                 process_voice_input(voice_call[n].voice, ListPassed(voice_call[n]),
                                     voice_call[n].context, voice_call[n].env[1]))
    /\ owner' = Owners(0)
    /\ UNCHANGED <<cleared, products_db, probe, result>>

----------------------------------------------------------------------------
(* The Dispatcher as a state machine *)

\* the number of process_input calls, at most
MaxCalls == 2

\* the context of the application with sentiment analysis switched off
PlainContext ==
    [weather_enabled |-> "True", sentiment_enabled |-> "False", show_analysis |-> "absent",
     model_option |-> NoKey, model_strategy |-> NoKey, conversation_history |-> NoList]

\* the same with the DeepSeek strategy chosen
DeepSeekContext ==
    [weather_enabled |-> "True", sentiment_enabled |-> "False", show_analysis |-> "absent",
     model_option |-> <<68,101,101,112,83,101,101,107>>, model_strategy |-> NoKey,  \* DeepSeek
     conversation_history |-> NoList]

\* the hybrid strategy chosen for the domain agents, by a caller that hands
\* them the Dispatcher's history: context["conversation_history"] is
\* agent.conversation_history
SharedHybridContext ==
    [weather_enabled |-> "True", sentiment_enabled |-> "False", show_analysis |-> "absent",
     model_option |-> NoKey, model_strategy |-> <<28151,21512,27169,24335>>,  \* 混合模式
     conversation_history |-> DispatcherList]

\* the calls process_input is given: a greeting (conversation, under either
\* context), a subject (education, with the hybrid strategy on the
\* Dispatcher's history) and a weather query for a city (weather)
DispatchInputs ==
    { [user_input |-> <<20320,22909>>, context |-> PlainContext],  \* 你好
      [user_input |-> <<20320,22909>>, context |-> DeepSeekContext],  \* 你好
      [user_input |-> <<25968,23398>>, context |-> SharedHybridContext],  \* 数学
      [user_input |-> <<21271,20140,22825,27668>>, context |-> PlainContext] }  \* 北京天气

\* what a model answers in the Dispatcher study: nothing, or two chunks
DispatchOutcomes ==
    { [chunks |-> <<>>, failed |-> FALSE, err |-> ErrorText],
      [chunks |-> << <<65>>, <<98,10>> >>, failed |-> FALSE, err |-> ErrorText] }  \* A | b\n

\* analyze_combined of a text without sentiment words
NeutralSentiment ==
    [valid |-> TRUE,
     sentiment_analysis |-> [sentiment |-> <<110,101,117,116,114,97,108>>, confidence |-> 600],  \* neutral
     emotion_analysis |-> [main_emotion |-> <<20013,24615>>, confidence |-> 800,  \* 中性
                           suggested_replies |-> <<>>]]

\* the environment of one operation: both models answer the same
DispatchEnvs ==
    {[qwen |-> o, deepseek |-> o, sentiment_result |-> NeutralSentiment,
      analysis_report |-> <<24773,24863,20998,26512,32467,26524,65306>>, choice |-> 1, voice_choice |-> 1,  \* 情感分析结果：
      debug_mode |-> FALSE, keywords |-> <<>>, weather_reply |-> <<26228>>] :  \* 晴
        o \in DispatchOutcomes}

\* the environment of a voice input: the models answer two chunks
VoiceEnvs == {env \in DispatchEnvs : env.qwen.chunks # <<>>}

VoiceResults ==
    [error : BOOLEAN, recognized_text : { <<35831,38382>> }, analysed : {FALSE},  \* 请问
     sentiment_result : {NeutralSentiment}]

Init ==
    /\ DispatcherInit
    /\ probe = [voice |-> CHOOSE v \in VoiceResults : TRUE, context |-> PlainContext]
    /\ result = Pending

Next ==
    \/ \E c \in DispatchInputs : Len(gens) < MaxCalls /\ ProcessInput(c.user_input, c.context)
    \/ \E g \in 1..Len(gens), env \in DispatchEnvs : FirstNext(g, env)
    \/ \E g \in 1..Len(gens) : Resume(g)
    \/ \E g \in 1..Len(gens) : LaterNext(g)
    \/ \E g \in 1..Len(gens) : Abandon(g)
    \/ ClearHistory
    \/ \E voice \in VoiceResults, env \in VoiceEnvs :
           ProcessVoiceInput(voice, PlainContext, env)
    \/ \E n \in 1..Len(voice_call) : VoiceResume(n)

Spec == Init /\ [][Next]_vars

----------------------------------------------------------------------------
(* History properties of the Dispatcher *)

Calls == 1..Len(gens)

\* the calls whose stream was drained to exhaustion
Drained == {g \in Calls : gens[g].pc = "done"}

\* the calls whose stream was consumed in part: suspended, or abandoned,
\* after at least one fragment
Partial ==
    {g \in Calls : gens[g].pc \in {"suspended", "closed"} /\ gens[g].delivered # <<>>}

UserTurn(g) == [role |-> "user", content |-> gens[g].user_input]

\* the history entries of role r appended by call g
Entries(g, r) ==
    {i \in 1..Len(conversation_history) :
        owner[i] = g /\ conversation_history[i].role = r}

\* C3: starting from an empty history (and with no clear_history since),
\* the history holds 2N turns after N process_input calls that were each
\* drained, and 2(N-1)+1 when the others were drained and the N-th was
\* abandoned part-way.
C3_HistoryLength ==
    cleared = 0 =>
        /\ (Drained = Calls => Len(conversation_history) = 2 * Len(gens))
        /\ (\E g \in Partial : Drained = Calls \ {g})
               => Len(conversation_history) = 2 * (Len(gens) - 1) + 1

\* C4: a drained call delivered exactly the routed agent's fragments in
\* order and has exactly one assistant turn in the history, whose content
\* is the concatenation of the delivered fragments; a call that is not
\* drained (suspended or abandoned) has no assistant turn, so the turn is
\* appended only after the last fragment was delivered.
C4_DrainedStream ==
    \A g \in Calls :
        /\ IsPrefix(gens[g].delivered, gens[g].agent_frags)
        /\ gens[g].pc = "done" => gens[g].delivered = gens[g].agent_frags
        /\ (gens[g].pc = "done" /\ cleared = 0) =>
               /\ Cardinality(Entries(g, "assistant")) = 1
               /\ \A i \in Entries(g, "assistant") :
                      conversation_history[i].content = Join(gens[g].delivered)
        /\ gens[g].pc # "done" => Entries(g, "assistant") = {}

\* a call drained after several fragments, next to an abandoned one
C4_Witness ==
    /\ cleared = 0
    /\ \E g \in Calls :
           /\ gens[g].pc = "done"
           /\ Len(gens[g].delivered) >= 2
           /\ Entries(g, "assistant") # {}
    /\ \E g \in Calls : gens[g].pc = "closed" /\ gens[g].delivered # <<>>

\* C5: as soon as process_input has been called the user turn is in the
\* history, also when the caller has not pulled anything from the stream.
C5_UserTurnOnCall ==
    cleared = 0 =>
        \A g \in Calls :
            \E i \in 1..Len(conversation_history) :
                owner[i] = g /\ conversation_history[i] = UserTurn(g)

\* what one step may append for call g: the user turn, the assistant turn,
\* or both (an agent stream that is empty)
Appended(g) ==
    LET reply == [role |-> "assistant", content |-> gens'[g].full_response]
    IN {<<>>, <<UserTurn(g)>>, <<reply>>, <<UserTurn(g), reply>>}

C6_Step ==
    IF ClearHistory
    THEN conversation_history' = <<>>
    ELSE /\ IsPrefix(conversation_history, conversation_history')
         /\ \/ conversation_history' = conversation_history
            \/ \E g \in Calls :
                   SubSeq(conversation_history', Len(conversation_history) + 1,
                          Len(conversation_history')) \in Appended(g)

\* C6: every step other than clear_history leaves the previous history as a
\* prefix of the new one, and what it appends is a turn of the Dispatcher
\* (the user turn or the assistant turn of a call), never an entry added by
\* an agent or a model client; clear_history leaves the history empty.
C6_AppendOnly == [][C6_Step]_vars

----------------------------------------------------------------------------
(* Agent-level study: one turn handed to one agent by the router *)

\* a key that names no strategy
InvalidKey == <<71,80,84,45,52>>  \* GPT-4

ContextKeys == StrategyNames \cup {NoKey, InvalidKey}

AgentContexts ==
    [weather_enabled : {"absent"}, sentiment_enabled : {"False", "absent"},
     show_analysis : {"False"}, model_option : ContextKeys, model_strategy : ContextKeys,
     conversation_history : {NoList}]

\* for each agent, inputs on which its automatic strategy picks either model
AgentInputs(agent) ==
    CASE agent = "conversation" -> { <<20320,22909>>, <<25968,23398>> }  \* 你好 | 数学
      [] agent = "education" -> { <<25968,23398>>, <<20160,20040,26159,25968,23398>> }  \* 数学 | 什么是数学
      [] agent = "ecommerce" -> { <<20215,26684>>, <<25163,26426>> }  \* 价格 | 手机
      [] agent = "government" -> { <<25919,24220,21672,35810>>, <<31038,20445,27969,31243>> }  \* 政府咨询 | 社保流程

\* a model answers one chunk, or fails before any
AgentOutcomes ==
    { [chunks |-> << <<65>> >>, failed |-> FALSE, err |-> ErrorText],  \* A
      [chunks |-> <<>>, failed |-> TRUE, err |-> ErrorText] }

NegativeSentiment ==
    [valid |-> TRUE,
     sentiment_analysis |-> [sentiment |-> <<110,101,103,97,116,105,118,101>>, confidence |-> 990],  \* negative
     emotion_analysis |-> [main_emotion |-> <<20013,24615>>, confidence |-> 800,  \* 中性
                           suggested_replies |-> <<>>]]

AgentEnvs(user_input) ==
    [qwen : AgentOutcomes, deepseek : AgentOutcomes,
     sentiment_result : {NeutralSentiment, NegativeSentiment},
     analysis_report : { <<24773,24863,20998,26512,32467,26524,65306>> }, choice : 1..3, voice_choice : {1},  \* 情感分析结果：
     debug_mode : {FALSE}, keywords : Orderings(extract_keywords(user_input)),
     weather_reply : { <<26228>> }]  \* 晴

AgentProbes ==
    UNION {[agent : {agent}, user_input : {user_input}, context : AgentContexts,
            env : AgentEnvs(user_input)] :
               <<agent, user_input>> \in
                   UNION {{agent} \X AgentInputs(agent) : agent \in HybridAgents}}

InitAgent ==
    /\ DispatcherInit
    /\ probe \in AgentProbes
    /\ result = Pending

AgentTurn ==
    /\ ~Applied
    /\ result' = <<agent_router(probe.agent, probe.user_input, <<>>, probe.context,
                                probe.env)>>
    /\ products_db' = Value'.products_db
    /\ UNCHANGED probe
    /\ CoreAgentIdle

SpecAgent == InitAgent /\ [][AgentTurn]_vars

\* the probe's context with the automatic strategy named under both keys
AutoContext ==
    [probe.context EXCEPT !.model_option = AutoStrategy, !.model_strategy = AutoStrategy]

\* C8: when the model-selection key in the context names none of the four
\* strategies, the agent answers as it does under the automatic strategy:
\* the same model-generated response, no error message in its place.
C8_InvalidKeyFallsBack ==
    (Applied /\ probe.context.model_option = InvalidKey
             /\ probe.context.model_strategy = InvalidKey)
        => Value = agent_router(probe.agent, probe.user_input, <<>>, AutoContext,
                                probe.env)

\* the clients invoked in the turn
Clients == {Value.calls[n].client : n \in 1..Len(Value.calls)}

\* C9: in a turn that makes a model call, the strategy that runs is the one
\* context["model_option"] names: "DeepSeek" invokes only the DeepSeek
\* client, "Qwen2.5" only the Qwen client.
C9_ModelOptionSelects ==
    (Applied /\ probe.context.model_strategy = NoKey /\ Value.calls # <<>>) =>
        /\ probe.context.model_option = <<68,101,101,112,83,101,101,107>> => Clients = {"deepseek"}  \* DeepSeek
        /\ probe.context.model_option = <<81,119,101,110,50,46,53>> => Clients = {"qwen"}  \* Qwen2.5

----------------------------------------------------------------------------
(* The neutral tone *)

\* C11: for a neutral label the composed response of the government and
\* conversation agents is exactly the unwrapped response text, with nothing
\* prepended or appended (debug_mode off), whichever template is drawn.
C11_NeutralPassThrough ==
    (Applied /\ ProbeLabel = <<110,101,117,116,114,97,108>> /\ ~probe.debug_mode)  \* neutral
        => Value = probe.response

DomainAgents == {"education", "ecommerce", "government"}

process_result(agent, input, context, env) ==
    CASE agent = "education" -> EducationAgent_process_result(input, context, env)
      [] agent = "ecommerce" -> EcommerceAgent_process_result(input, context, env)
      [] agent = "government" -> GovernmentAgent_process_result(input, context, env)

----------------------------------------------------------------------------
(* Function-level study of process on valid and invalid inputs *)

ProcessInputs(agent) ==
    {NoneInput, IntInput, StrInput(<<>>)} \cup {StrInput(t) : t \in AgentInputs(agent)}

ProcessContexts ==
    [weather_enabled : {"absent"}, sentiment_enabled : {"absent"},
     show_analysis : {"absent"}, model_option : {NoKey}, model_strategy : ContextKeys,
     conversation_history : {NoList}]

ProcessEnvs(text) ==
    [qwen : AgentOutcomes, deepseek : AgentOutcomes,
     keywords : Orderings(extract_keywords(text))]

ProcessProbes ==
    UNION {[agent : {p[1]}, input : {p[2]}, context : ProcessContexts,
            env : ProcessEnvs(p[2].text)] :
               p \in UNION {{agent} \X ProcessInputs(agent) : agent \in DomainAgents}}

InitProcess ==
    /\ DispatcherInit
    /\ probe \in ProcessProbes
    /\ result = Pending

Process ==
    /\ ~Applied
    /\ result' = <<process_result(probe.agent, probe.input, probe.context, probe.env)>>
    /\ products_db' = Value'.products_db
    /\ UNCHANGED probe
    /\ CoreAgentIdle

SpecProcess == InitProcess /\ [][Process]_vars

\* C12: process called with None, a non-string value or the empty string
\* returns success = false with an error, and invokes no model client.
C12_InvalidInputFails ==
    (Applied /\ (probe.input.kind # <<115,116,114>> \/ probe.input.text = <<>>))  \* str
        => /\ ~Value.success
           /\ Value.error # <<>>
           /\ Value.calls = <<>>

----------------------------------------------------------------------------
(* The Dispatcher drained while a model answers a chunk that is not text    *)

\* a model answers the text chunk "A" and then the number 5
NumberOutcome == [chunks |-> << <<65>>, IntChunk >>, failed |-> FALSE, err |-> ErrorText]  \* A

DrainOutcomes == DispatchOutcomes \cup {NumberOutcome}

\* the environment of a call on the text: what the models answer (both the
\* same) and the order in which list(set(...)) gives the keywords of the
\* text
DrainEnvs(text) ==
    {[qwen |-> o, deepseek |-> o, sentiment_result |-> NeutralSentiment,
      analysis_report |-> <<24773,24863,20998,26512,32467,26524,65306>>, choice |-> 1, voice_choice |-> 1,  \* 情感分析结果：
      debug_mode |-> FALSE, keywords |-> k, weather_reply |-> <<26228>>] :  \* 晴
        o \in DrainOutcomes, k \in Orderings(extract_keywords(text))}

DrainInputs == { <<20320,22909>>, <<25968,23398>>, <<20215,26684>>, <<25919,24220,21672,35810>> }  \* 你好 | 数学 | 价格 | 政府咨询

NextDrain ==
    \/ \E u \in DrainInputs : Len(gens) < MaxCalls /\ ProcessInput(u, PlainContext)
    \/ \E g \in 1..Len(gens) : \E env \in DrainEnvs(gens[g].user_input) : FirstNext(g, env)
    \/ \E g \in 1..Len(gens) : Resume(g)
    \/ \E g \in 1..Len(gens) : LaterNext(g)

SpecDrain == Init /\ [][NextDrain]_vars

Raised == {g \in Calls : gens[g].pc = "raised"}

\* C13: draining process_input never raises to the caller: whatever the
\* routed agent or its model stream does, no generator of process_input
\* ends by raising
C13_DrainNeverRaises == Raised = {}

----------------------------------------------------------------------------
(* Function-level study of the order branch of EcommerceAgent.process.  A   *)
(* query is a prefix, an order id (or something that is none) and a suffix. *)

\* the keys of self.orders_db
EcommerceAgent_order_ids ==
    {EcommerceAgent_orders_db[n].id : n \in 1..Len(EcommerceAgent_orders_db)}

\* self.orders_db after _query_order(query): the table is only read, by
\* self.orders_db.get(order_id)
EcommerceAgent_orders_after(query) == EcommerceAgent_orders_db

\* well-formed ids that are no key of the table
UnknownOrderIds == { <<111,57,57,57>>, <<111,48,48,48>> }  \* o999 | o000

\* texts in which the pattern [o]\d{3} has no match
NoOrderIds == { <<120,120,120>>, <<79,48,48,49>>, <<111,49,50>>, <<>> }  \* xxx | O001 | o12

OrderPrefixes == { <<26597,35810,35746,21333>>, <<35746,21333>>, <<29289,27969,32>> }  \* 查询订单 | 订单 | 物流 
OrderSuffixes == { <<>>, <<30340,29366,24577>>, <<32,111,48,48,49>>, <<32,111,57,57,57>> }  \* 的状态 |  o001 |  o999

OrderProbes ==
    [prefix : OrderPrefixes,
     id : EcommerceAgent_order_ids \cup UnknownOrderIds \cup NoOrderIds,
     suffix : OrderSuffixes]

OrderQuery(p) == p.prefix \o p.id \o p.suffix

\* the order branch calls no model: any environment will do
QuietEnv == CHOOSE e \in ProcessEnvs(<<>>) : TRUE

InitOrder ==
    /\ DispatcherInit
    /\ probe \in OrderProbes
    /\ result = Pending

\* EcommerceAgent.process(query, {}) and, on its own, _query_order(query, {})
Order ==
    /\ ~Applied
    /\ result' = <<[process |-> EcommerceAgent_process_result(
                                    StrInput(OrderQuery(probe)), PlainContext, QuietEnv),
                    response |-> EcommerceAgent_query_order(OrderQuery(probe)),
                    orders_db |-> EcommerceAgent_orders_after(OrderQuery(probe))]>>
    /\ products_db' = Value'.process.products_db
    /\ UNCHANGED probe
    /\ CoreAgentIdle

SpecOrder == InitOrder /\ [][Order]_vars

\* C14: EcommerceAgent.process on an order query whose order id is no key of
\* the order table returns success = true with the templated not-found
\* message that names the id, calls no model and leaves the table as it was.
C14_UnknownOrderNotFound ==
    (Applied /\ probe.id \in UnknownOrderIds)
        => /\ Value.process.success
           /\ Value.process.error = <<>>
           /\ Value.process.calls = <<>>
           /\ Join(Value.process.frags)
                  = <<25265,27465,65292,26410,25214,21040,35746,21333,32>> \o probe.id \o <<32,30340,20449,24687,12290>>  \* 抱歉，未找到订单  |  的信息。
           /\ Value.orders_db = EcommerceAgent_orders_db

C14_Witness ==
    /\ Applied
    /\ OrderQuery(probe) = <<26597,35810,35746,21333,111,57,57,57>>  \* 查询订单o999
    /\ Value.process.success
    /\ Contains(Join(Value.process.frags), <<111,57,57,57>>)  \* o999

\* C15: for every order id of the order table, _query_order on a query text
\* that contains the id returns, without raising, a string that contains the
\* id, the status of the order and its total amount.
C15_KnownOrderReported ==
    Applied =>
        \A n \in 1..Len(EcommerceAgent_orders_db) :
            Contains(OrderQuery(probe), EcommerceAgent_orders_db[n].id)
                => /\ ~IsRaise(Value.response)
                   /\ Contains(Value.response, EcommerceAgent_orders_db[n].id)
                   /\ Contains(Value.response, EcommerceAgent_orders_db[n].status)
                   /\ Contains(Value.response, EcommerceAgent_orders_db[n].total)

----------------------------------------------------------------------------
(* WeatherQueryTool.parse_query: the number of days *)

\* the offset in text at which \s* stops when it starts at offset i
RECURSIVE SkipSpace(_, _)
SkipSpace(text, i) ==
    IF i + 1 <= Len(text) /\ text[i + 1] \in Whitespace THEN SkipSpace(text, i + 1) ELSE i

\* the offsets at which 未来\s*(\d+)\s*天 matches
WeatherQueryTool_future_pattern(text) ==
    {i \in 0..Len(text) :
        /\ OccursAt(<<26410,26469>>, text, i)  \* 未来
        /\ SkipSpace(text, i + 2) + 1 <= Len(text)
        /\ text[SkipSpace(text, i + 2) + 1] \in Digits
        /\ OccursAt(<<22825>>, text,  \* 天
                    SkipSpace(text, RunEnd(text, SkipSpace(text, i + 2) + 1)))}

\* parse_query(text)["days"]
WeatherQueryTool_parse_query_days(text) ==
    IF Contains(text, <<26126,22825>>) THEN 2  \* 明天
    ELSE IF Contains(text, <<21518,22825>>) THEN 3  \* 后天
    ELSE IF Contains(text, <<26410,26469>>)  \* 未来
    THEN IF WeatherQueryTool_future_pattern(text) # {}
         THEN Min({3, IntOf(Group(text, SkipSpace(text,
                       Leftmost(WeatherQueryTool_future_pattern(text)) + 2) + 1))})
         ELSE 3
    ELSE 1

\* the numbers N of "未来 N 天" tried
DayCounts == {0, 1, 2, 3, 5, 7, 10}

DayPhrases ==
    { <<>>, <<20170,22825>>, <<26126,22825>>, <<21518,22825>>, <<26410,26469>>, <<26410,26469,19968,21608>>, <<55,22825>>, <<26410,26469,20960,22825>> }  \* 今天 | 明天 | 后天 | 未来 | 未来一周 | 7天 | 未来几天
        \cup {<<26410,26469>> \o Decimal(n) \o <<22825>> : n \in DayCounts}  \* 未来 | 天
        \cup {<<26410,26469,32>> \o Decimal(n) \o <<32,22825>> : n \in DayCounts}  \* 未来  |  天

DayProbes ==
    [city : { <<>>, <<21271,20140>> }, phrase : DayPhrases,  \* 北京
     suffix : { <<>>, <<22825,27668>>, <<30340,22825,27668,24590,20040,26679>> }]  \* 天气 | 的天气怎么样

DayQuery(p) == p.city \o p.phrase \o p.suffix

InitDays ==
    /\ DispatcherInit
    /\ probe \in DayProbes
    /\ result = Pending

ParseDays ==
    /\ ~Applied
    /\ result' = <<WeatherQueryTool_parse_query_days(DayQuery(probe))>>
    /\ UNCHANGED probe
    /\ DispatcherIdle

SpecDays == InitDays /\ [][ParseDays]_vars

\* C18: for every text, also one of the form "未来 N 天" with a non-negative
\* integer N, parse_query returns a number of days that is 1, 2 or 3.
C18_DaysInRange == Applied => Value \in {1, 2, 3}

----------------------------------------------------------------------------
(* The order of the rules in _route_to_agent *)

\* rule i of the table matches the text: one of its keywords is in the text
\* or one of its patterns is found in it
RuleMatches(i, text) ==
    \/ ContainsAny(text, routing_rules[rule_order[i]].keywords)
    \/ \E n \in 1..Len(routing_rules[rule_order[i]].patterns) :
           re_search(routing_rules[rule_order[i]].patterns[n], text)

\* C20: with the weather flag enabled (set or left at its default), _route_to_agent returns the domain of
\* the first rule, in the declaration order weather, ecommerce, education,
\* government, conversation, that matches the text by a keyword or by a
\* pattern; a text that matches an earlier rule only by a pattern and a
\* later rule by a keyword is routed to the earlier rule.
C20_FirstRuleWins ==
    (Applied /\ probe.context.weather_enabled # "False")
        => \A i \in 1..Len(rule_order) :
               (RuleMatches(i, probe.text) /\ \A j \in 1..(i - 1) : ~RuleMatches(j, probe.text))
                   => Value = rule_order[i]

\* a text that matches ecommerce only by its price pattern and education by
\* the keyword 数学 was routed to ecommerce
C20_Witness ==
    /\ Applied
    /\ probe.context.weather_enabled = "True"
    /\ probe.text = <<51,20803,20197,19979,25968,23398>>  \* 3元以下数学
    /\ ~ContainsAny(probe.text, routing_rules.ecommerce.keywords)
    /\ ContainsAny(probe.text, routing_rules.education.keywords)
    /\ Value = "ecommerce"

----------------------------------------------------------------------------
(* The Dispatcher under every model option of the conversation agent:       *)
(* process_input calls, their steps and process_voice_input, on a history   *)
(* that is not cleared                                                      *)

\* the context of the application with sentiment analysis switched off and
\* the model option set to the key
OptionContext(key) ==
    [weather_enabled |-> "True", sentiment_enabled |-> "False", show_analysis |-> "absent",
     model_option |-> key, model_strategy |-> NoKey, conversation_history |-> NoList]

HybridOption == <<28151,21512,27169,24335>>  \* 混合模式

\* a greeting under each of the four strategies
OptionInputs ==
    {[user_input |-> <<20320,22909>>, context |-> OptionContext(key)] : key \in StrategyNames}  \* 你好

\* the environment of one operation: the fast model answers nothing or two
\* chunks, the heavy model nothing
OptionEnvs == {[env EXCEPT !.deepseek.chunks = <<>>] : env \in DispatchEnvs}

\* the environment of a voice input: the fast model answers two chunks
OptionVoiceEnvs == {env \in OptionEnvs : env.qwen.chunks # <<>>}

NextOptions ==
    \/ \E c \in OptionInputs : Len(gens) < MaxCalls /\ ProcessInput(c.user_input, c.context)
    \/ \E g \in 1..Len(gens), env \in OptionEnvs : FirstNext(g, env)
    \/ \E g \in 1..Len(gens) : Resume(g)
    \/ \E g \in 1..Len(gens) : LaterNext(g)
    \/ \E g \in 1..Len(gens) : Abandon(g)
    \/ \E voice \in VoiceResults, env \in OptionVoiceEnvs, key \in {NoKey, HybridOption} :
           ProcessVoiceInput(voice, OptionContext(key), env)
    \/ \E n \in 1..Len(voice_call) : VoiceResume(n)

SpecOptions == Init /\ [][NextOptions]_vars

\* the supplementary prompt of the hybrid strategy up to the draft
\* (conversation_agent.py 260)
HybridPromptHead(user_input) ==
    <<35831,23545,20197,19979,38382,39064,25552,20379,19987,19994,30340,34917,20805,35828,26126,65306>> \o user_input \o <<10,21407,22987,22238,31572,65306>>  \* 请对以下问题提供专业的补充说明： | \n原始回答：

\* the process_input calls under the hybrid option that have posted their
\* second request and wait for its answer
HybridTurn ==
    {g \in 1..Len(gens) : /\ gens[g].context.model_option = HybridOption
                          /\ Len(gens[g].posted) = 2}

\* C21: in hybrid mode reached through process_input, the message list sent
\* to the heavy (DeepSeek) model contains the supplementary prompt that
\* embeds the user input and the fast model's draft
C21_HybridPromptSent ==
    \A g \in HybridTurn :
        /\ gens[g].posted[2].client = "deepseek"
        /\ \E n \in 1..Len(gens[g].posted[2].messages) :
               IsPrefix(HybridPromptHead(gens[g].user_input),
                        gens[g].posted[2].messages[n].content)

----------------------------------------------------------------------------
(* How a hybrid strategy combines the two answers *)

\* the two texts under the fixed section headers
UnderHeaders(fast, heavy) ==
    <<32508,21512,22238,22797,65306,10,10>> \o fast \o <<10,10,34917,20805,20449,24687,65306,10>> \o heavy  \* 综合回复：\n\n | \n\n补充信息：\n

\* C22: a hybrid strategy's output is the two sub-model texts under the
\* fixed section headers exactly when both sub-model outputs are non-empty;
\* when exactly one of them is empty the output is the non-empty text
\* alone, without section headers
C22_HybridCombination ==
    Applied
        => /\ (Join(Value.frags) = UnderHeaders(FastOutput, HeavyOutput))
                  <=> (FastOutput # <<>> /\ HeavyOutput # <<>>)
           /\ (FastOutput # <<>> /\ HeavyOutput = <<>>) => Join(Value.frags) = FastOutput
           /\ (FastOutput = <<>> /\ HeavyOutput # <<>>) => Join(Value.frags) = HeavyOutput

\* C23: in every agent's hybrid strategy each call invokes both model
\* clients exactly once, the fast (Qwen) client first and the heavy
\* (DeepSeek) client after the fast stream was consumed
C23_BothClientsInOrder ==
    Applied
        => /\ Len(Value.calls) = 2
           /\ Value.calls[1].client = "qwen"
           /\ Value.calls[2].client = "deepseek"

----------------------------------------------------------------------------
(* The model clients a domain agent's process invokes, by query type *)

\* the clients of a sequence of model calls, in order
ClientsOf(calls) == [n \in 1..Len(calls) |-> calls[n].client]

\* the query types process answers with _query_order, _search_products,
\* _recommend_products and _provide_shopping_guide: these read
\* self.orders_db and self.products_db and call no model client
EcommerceAgent_table_types ==
    {"order_query", "product_search", "product_recommendation", "shopping_guide"}

\* the answer for every query type comes from the general response
EcommerceAgent_process_clients_general(user_input, context, env) ==
    ClientsOf(EcommerceAgent_general_ecommerce_response(user_input, env).calls)

\* the model clients EcommerceAgent.process invokes on a str input
EcommerceAgent_process_clients(user_input, context, env) ==
    ClientsOf(EcommerceAgent_process(user_input, context, env).calls)

\* the model clients GovernmentAgent.process invokes
GovernmentAgent_process_clients(user_input, context, env) ==
    ClientsOf(GovernmentAgent_process(user_input, context, env).calls)

process_clients(agent, user_input, context, env) ==
    CASE agent = "ecommerce" -> EcommerceAgent_process_clients(user_input, context, env)
      [] agent = "government" -> GovernmentAgent_process_clients(user_input, context, env)

\* EcommerceAgent.products_db after the agent's process has run
process_products_db(agent, user_input, context, env) ==
    CASE agent = "ecommerce" -> EcommerceAgent_process(user_input, context, env).products_db
      [] agent = "government" -> products_db

TableAgents == {"ecommerce", "government"}

\* queries of every type of the e-commerce agent, and queries about the
\* identity card and about other matters for the government agent
TableInputs(agent) ==
    CASE agent = "ecommerce" ->
            { <<26597,35810,35746,21333,111,48,48,49>>, <<26597,35810,35746,21333,111,57,57,57>>, <<29289,27969>>, <<25512,33616,25163,26426>>, <<25512,33616>>,  \* 查询订单o001 | 查询订单o999 | 物流 | 推荐手机 | 推荐
              <<26377,27809,26377,32819,26426>>, <<25214,25163,26426>>, <<25214,32,25163,26426>>, <<25214,32,32819,26426>>, <<25214,32,32819,26426,32,51,48,48,20803,20197,19979>>,  \* 有没有耳机 | 找手机 | 找 手机 | 找 耳机 | 找 耳机 300元以下
              <<25214,32,30005,35270>>, <<25163,26426,24590,20040,36873>>, <<36141,20080,24314,35758>>, <<36141,29289,36710>>, <<20215,26684>>, <<25163,26426>> }  \* 找 电视 | 手机怎么选 | 购买建议 | 购物车 | 价格 | 手机
      [] agent = "government" ->
            { <<36523,20221,35777,21150,29702>>, <<36523,20221,35777,21040,26399,20102,24590,20040,25442>>, <<36523,20221,35777>>, <<25919,24220,21672,35810>> }  \* 身份证办理 | 身份证到期了怎么换 | 身份证 | 政府咨询

TableProbes ==
    UNION {[agent : {p[1]}, user_input : {p[2]}, context : ProcessContexts,
            env : ProcessEnvs(p[2])] :
               p \in UNION {{agent} \X TableInputs(agent) : agent \in TableAgents}}

InitTable ==
    /\ DispatcherInit
    /\ probe \in TableProbes
    /\ result = Pending

TableTurn ==
    /\ ~Applied
    /\ result' = <<process_clients(probe.agent, probe.user_input, probe.context, probe.env)>>
    /\ products_db' = process_products_db(probe.agent, probe.user_input, probe.context,
                                          probe.env)
    /\ UNCHANGED probe
    /\ CoreAgentIdle

SpecTable == InitTable /\ [][TableTurn]_vars

\* the probe is a table-backed query of its agent
TableBacked ==
    \/ /\ probe.agent = "ecommerce"
       /\ EcommerceAgent_analyze_query(probe.user_input) \in EcommerceAgent_table_types
    \/ /\ probe.agent = "government"
       /\ GovernmentAgent_is_id_card_query(probe.user_input)

\* C24: for the table-backed query types (order query, product search,
\* product recommendation and shopping guide of the e-commerce agent, the
\* identity-card query of the government agent) process returns without
\* invoking either model client
C24_TableAnswersCallNoModel ==
    (Applied /\ TableBacked) => Value = <<>>

\* a product search of the phones was answered from the catalog, which it
\* ranked, without a model call, while a general query of the same agent
\* does call a model
C24_Witness ==
    /\ Applied
    /\ probe.agent = "ecommerce"
    /\ EcommerceAgent_analyze_query_pair(probe.user_input, probe.env.keywords)
           = [query_type |-> "product_search", category |-> <<25163,26426>>]  \* 手机
    /\ products_db # EcommerceAgent_products_db
    /\ Value = <<>>
    /\ EcommerceAgent_process_clients(<<20215,26684>>, probe.context, probe.env) # <<>>  \* 价格

----------------------------------------------------------------------------
(* utils/helper_functions.py retry: the wrapper as a state machine.  probe  *)
(* holds the decorator's parameters and, for each invocation of the wrapped *)
(* function, its outcome: it returns, it raises an exception that is an     *)
(* instance of the `exceptions` tuple, or it raises one that is not (with   *)
(* the default (Exception,), a KeyboardInterrupt or another BaseException). *)
(* result holds the wrapper's frame.                                        *)

\* the largest max_attempts explored
MaxAttempts == 3

RetryDelays == {0, 1, 2}
RetryBackoffs == {1, 2, 3}

\* what one invocation of func does
RetryOutcomes == {"returns", "raises_listed", "raises_unlisted"}

\* the frame when wrapper is entered: attempt = 0, current_delay = delay
retry_wrapper_entry(delay) ==
    [pc |-> "loop", attempt |-> 0, current_delay |-> delay, invoked |-> 0,
     waits |-> <<>>, returned |-> 0, raised |-> 0]

InitRetry ==
    /\ DispatcherInit
    /\ probe \in [max_attempts : 0..MaxAttempts, delay : RetryDelays,
                  backoff : RetryBackoffs, outcomes : [1..MaxAttempts -> RetryOutcomes]]
    /\ result = <<retry_wrapper_entry(probe.delay)>>

\* current_delay + backoff instead of the product
retry_next_delay_sum(current_delay, backoff) == current_delay + backoff

\* current_delay *= backoff
retry_next_delay(current_delay, backoff) == current_delay * backoff

\* the except branch: attempt += 1, and the exception is raised again when
\* no attempt is left, before any wait
retry_except(w, max_attempts) ==
    IF w.attempt + 1 >= max_attempts
    THEN [w EXCEPT !.attempt = @ + 1, !.invoked = @ + 1, !.pc = "raised",
                   !.raised = w.invoked + 1]
    ELSE [w EXCEPT !.attempt = @ + 1, !.invoked = @ + 1, !.pc = "sleep"]

\* an exception that `except exceptions` does not match leaves the wrapper
\* at once: attempt is not counted and nothing waits
retry_propagate(w) ==
    [w EXCEPT !.invoked = @ + 1, !.pc = "raised", !.raised = w.invoked + 1]

\* one turn of  while attempt < max_attempts: try: return func(...)
\* the loop that is not entered ends the wrapper, which returns None
\* (returned = 0 stands for no invocation's result)
RetryAttempt ==
    /\ Value.pc = "loop"
    /\ result' = << IF Value.attempt >= probe.max_attempts
                    THEN [Value EXCEPT !.pc = "returned"]
                    ELSE CASE probe.outcomes[Value.invoked + 1] = "raises_listed" ->
                                  retry_except(Value, probe.max_attempts)
                           [] probe.outcomes[Value.invoked + 1] = "raises_unlisted" ->
                                  retry_propagate(Value)
                           [] probe.outcomes[Value.invoked + 1] = "returns" ->
                                  [Value EXCEPT !.invoked = @ + 1, !.pc = "returned",
                                                !.returned = Value.invoked + 1] >>
    /\ UNCHANGED probe
    /\ DispatcherIdle

\* time.sleep(current_delay); current_delay *= backoff
RetrySleep ==
    /\ Value.pc = "sleep"
    /\ result' = << [Value EXCEPT !.pc = "loop",
                                  !.waits = Append(@, Value.current_delay),
                                  !.current_delay =
                                      retry_next_delay(@, probe.backoff)] >>
    /\ UNCHANGED probe
    /\ DispatcherIdle

NextRetry == RetryAttempt \/ RetrySleep

\* the wrapper runs on: nothing suspends it between two of its steps
SpecRetry == InitRetry /\ [][NextRetry]_vars /\ WF_vars(NextRetry)

RECURSIVE Pow(_, _)
Pow(b, k) == IF k = 0 THEN 1 ELSE b * Pow(b, k - 1)

\* the invocations that do not raise
Successes == {k \in 1..MaxAttempts : probe.outcomes[k] = "returns"}

RetryDone == Value.pc \in {"returned", "raised"}

RetrySafe ==
    /\ Value.invoked <= probe.max_attempts
    /\ (Value.pc = "returned" /\ Value.returned > 0)
           => /\ Value.returned \in Successes
              /\ \A k \in Successes : Value.returned <= k
              /\ Value.invoked = Value.returned
    /\ (Value.pc = "raised")
           => /\ Value.raised = Value.invoked
              /\ Value.returned = 0
              /\ \A k \in 1..Value.invoked : k \notin Successes
              /\ Len(Value.waits) = Value.invoked - 1
              /\ \/ Value.invoked = probe.max_attempts
                 \/ probe.outcomes[Value.invoked] = "raises_unlisted"
    /\ (RetryDone /\ probe.max_attempts > 0
           /\ \A k \in 1..probe.max_attempts : k \notin Successes)
           => /\ Value.pc = "raised"
              /\ Value.invoked = probe.max_attempts
                     => /\ Value.raised = probe.max_attempts
                        /\ Len(Value.waits) = probe.max_attempts - 1
    /\ \A k \in 1..Len(Value.waits) :
           Value.waits[k] = probe.delay * Pow(probe.backoff, k - 1)

\* C25: a function wrapped by retry(max_attempts = n, delay = d, backoff = b)
\* is invoked at most n times; the wrapper returns the first successful
\* result without a further invocation; if all n invocations raise, the
\* n-th exception propagates with no wait after it (an exception that the
\* `exceptions` tuple does not list propagates from the invocation that
\* raised it, so that fewer than n invocations are made); the wait before
\* the k-th retry is d * b^(k-1); and the wrapper always terminates
C25_RetryContract == []RetrySafe /\ <>RetryDone

\* three attempts all raised listed exceptions: the third propagated after
\* waits of d and d * b, with b > 1
C25_Witness ==
    /\ Value.pc = "raised"
    /\ probe.max_attempts = 3
    /\ probe.delay = 1
    /\ probe.backoff = 2
    /\ \A k \in 1..3 : probe.outcomes[k] = "raises_listed"
    /\ Value.waits = <<1, 2>>
    /\ Value.invoked = 3

----------------------------------------------------------------------------
(* Sentiment analysis switched off *)

\* the text the selected strategy of the probe's agent generates, before
\* any adjustment
UnwrappedText ==
    IF probe.agent = "conversation"
    THEN Join(ConversationAgent_strategy(StrategyKey(probe.context.model_option),
                                         probe.user_input, <<>>, probe.env).frags)
    ELSE Join(GovernmentAgent_generate(probe.user_input, probe.context, probe.env).frags)

\* C26: when context["sentiment_enabled"] is false, the response of a turn
\* handled by the conversation agent or the government agent equals the
\* unwrapped model text: no tone prefix or suffix and no analysis report
C26_SentimentOffUnwrapped ==
    (/\ Applied
     /\ probe.agent \in ToneAgents
     /\ probe.context.sentiment_enabled = "False"
     /\ probe.agent = "conversation" => probe.context.model_option # InvalidKey)
        => Join(Value.frags) = UnwrappedText

----------------------------------------------------------------------------
(* Turns of interleaved and cleared streams *)

\* C27: in every reachable history each assistant turn is immediately
\* preceded by the user turn of the same process_input call, also when the
\* streams of two calls are consumed interleaved or an earlier stream was
\* abandoned (stated here for the histories that were never cleared)
C27_AssistantFollowsItsUser ==
    cleared = 0 =>
        \A i \in 1..Len(conversation_history) :
            conversation_history[i].role = "assistant"
                => /\ i > 1
                   /\ conversation_history[i - 1].role = "user"
                   /\ owner[i - 1] = owner[i]

\* C28: after any interleaving of process_input streams and clear_history
\* calls the history never begins with an assistant turn: a stream started
\* before clear_history and drained after it adds no assistant turn to the
\* cleared history
C28_NoLeadingAssistantTurn ==
    conversation_history # <<>> => conversation_history[1].role # "assistant"

----------------------------------------------------------------------------
(* The message list of a model call of the conversation agent *)

\* the process_input calls whose stream is first pulled in this step
Started == {g \in 1..Len(gens) : gens[g].pc = "created" /\ gens'[g].pc \notin {"created", "closed"}}

\* process_voice_input posts its first request in this step
VoiceStarted == Len(voice_call') > Len(voice_call)

\* the process_voice_input call that has posted it
NewCall == voice_call'[Len(voice_call')]

\* the step is the one in which an operation posts its first model request
FirstRequest == requests' # <<>> /\ (Started # {} \/ VoiceStarted)

\* the input of the operation of this step that calls a model: the input
\* of the process_input call being started, or else the text recognized by
\* process_voice_input
CurrentInput ==
    IF Started # {}
    THEN gens[CHOOSE g \in Started : TRUE].user_input
    ELSE NewCall.voice.recognized_text

\* the step runs the hybrid strategy
HybridStep ==
    \/ \E g \in Started : gens[g].context.model_option = HybridOption
    \/ VoiceStarted /\ NewCall.context.model_option = HybridOption

\* what _use_deepseek_model puts before the history
SystemPart(client) ==
    IF client = "deepseek" THEN <<ConversationAgent_system_prompt>> ELSE <<>>

C30_Step ==
    (FirstRequest /\ ~HybridStep) =>
        \A n \in 1..Len(requests') :
            requests'[n].messages =
                SystemPart(requests'[n].client) \o conversation_history
                    \o <<UserMessage(CurrentInput)>>

\* C30: for every model call made through the conversation agent with the
\* auto, Qwen or DeepSeek strategy, from process_input or from
\* process_voice_input and whatever earlier drained or abandoned turns left
\* in the history, the message list sent ends with a user message whose
\* content is the current input, added once: the list is the history as it
\* was before the operation (after the system prompt, if any) followed by
\* that one message
C30_CurrentInputLast == [][C30_Step]_vars

====
